---- MODULE Spec2Model ----
(***************************************************************************)
(* A model of nlisp: the atom type, the parser, the closure compiler, the  *)
(* evaluator and its primitive functions.                                  *)
(*                                                                         *)
(* Conventions.  A char is its code point and a source text is a sequence  *)
(* of chars; the &str of a Symbol or a String is a TLA+ string (see Chr).  *)
(* Positions keep the source's 0-based numbering,                          *)
(* so character number pos of a text is input[pos + 1].  Output written by  *)
(* println! is not part of the state.                                      *)
(***************************************************************************)
EXTENDS Integers, Sequences, FiniteSets, TLC

(***************************************************************************)
(* atom.rs: the Atom variants                                              *)
(***************************************************************************)
Symbol(s) == [t |-> "Symbol", s |-> s]

String(s) == [t |-> "String", s |-> s]

List(l) == [t |-> "List", l |-> l]

Bool(b) == [t |-> "Bool", b |-> b]

Nil == [t |-> "Nil"]

Error(e) == [t |-> "Error", err |-> e]

Upvalue(i, s) == [t |-> "Upvalue", i |-> i, s |-> s]

NativeFunction(f) == [t |-> "NativeFunction", f |-> f]

\* Option<Box<[Upvalue]>>
NoUpvalues == [some |-> FALSE, v |-> <<>>]

SomeUpvalues(v) == [some |-> TRUE, v |-> v]

ClosureAtom(c) == [t |-> "Closure", c |-> c]

\* VmError
VmErrors == {"NonEvaluable", "NotAFunction", "InvalidUsage", "NotASymbol"}

\* Result<Atom, VmError>
Ok(a) == [ok |-> TRUE, val |-> a]

Err(e) == [ok |-> FALSE, err |-> e]

(***************************************************************************)
(* Numbers: the f32 of Atom::Number.  A finite value is                    *)
(* (-1)^neg * m * 2^e, kept canonical so that equal values are equal       *)
(* records: m = 0 and e = 0 for the two zeros, otherwise m odd, m < 2^24,  *)
(* e >= -149 and m * 2^e < 2^128.  The operations round to nearest, ties   *)
(* to even, as the f32 operations of the code do.                          *)
(***************************************************************************)
F32(neg, m, e) == [t |-> "Number", c |-> "finite", neg |-> neg, m |-> m, e |-> e]

Zero(neg) == F32(neg, 0, 0)

Infinity(neg) == [t |-> "Number", c |-> "inf", neg |-> neg, m |-> 0, e |-> 0]

NaN == [t |-> "Number", c |-> "nan", neg |-> FALSE, m |-> 0, e |-> 0]

\* The powers of two 2^0 .. 2^30
PowersOfTwo ==
    <<1, 2, 4, 8, 16, 32, 64, 128, 256, 512, 1024, 2048, 4096, 8192, 16384,
      32768, 65536, 131072, 262144, 524288, 1048576, 2097152, 4194304,
      8388608, 16777216, 33554432, 67108864, 134217728, 268435456,
      536870912, 1073741824>>

Pow2(k) == PowersOfTwo[k + 1]

\* The number of bits of n, 0 <= n < 2^31; 0 for 0
BitLen(n) == Cardinality({k \in 1..31 : PowersOfTwo[k] <= n})

Max(a, b) == IF a >= b THEN a ELSE b

\* m * 2^e, 0 < m < 2^25, with its trailing zero bits moved to the exponent
StripZeros(neg, m, e) ==
    LET z == CHOOSE k \in 0..24 : m % Pow2(k) = 0 /\ m % Pow2(k + 1) # 0
    IN  F32(neg, m \div Pow2(z), e + z)

\* The f32 that is exactly m * 2^e, m < 2^25 with at most 24 significant
\* bits and e >= -149: infinity past the largest f32
Canonical(neg, m, e) ==
    IF m = 0 THEN Zero(neg)
    ELSE IF BitLen(m) + e > 128 THEN Infinity(neg)
    ELSE StripZeros(neg, m, e)

\* The f32 nearest to (m + f) * 2^e, where 0 <= m < 2^30 and f is 0 when
\* sticky is false and some fraction strictly between 0 and 1 when it is
\* true (then m has at least 25 bits): d low bits are dropped, to leave 24
\* bits and no bit below 2^-149, and the tie goes to the even mantissa
RoundUp(neg, q, r, half, e, sticky) ==
    Canonical(neg,
              IF r > half \/ (r = half /\ (sticky \/ q % 2 = 1)) THEN q + 1
              ELSE q,
              e)

RoundBy(neg, m, e, sticky, d) ==
    IF d = 0 THEN Canonical(neg, m, e)
    ELSE IF d > BitLen(m) THEN Zero(neg)
    ELSE RoundUp(neg, m \div Pow2(d), m % Pow2(d), Pow2(d - 1), e + d, sticky)

Round(neg, m, e, sticky) ==
    RoundBy(neg, m, e, sticky, Max(Max(BitLen(m) - 24, (0 - 149) - e), 0))

\* The f32 of an integer literal n, |n| < 2^30
Number(n) == Round(n < 0, IF n < 0 THEN 0 - n ELSE n, 0, FALSE)

IsZero(a) == a.c = "finite" /\ a.m = 0

\* The mantissa of a finite non-zero f32 aligned to 24 bits, and its exponent
Aligned(a) ==
    LET shift == 24 - BitLen(a.m)
    IN  [m |-> a.m * Pow2(shift), e |-> a.e - shift]

\* a + b of two finite non-zero f32: the operand of larger exponent, hi, is
\* given three more bits, the other is shifted down to hi's exponent (what
\* falls off is remembered in sticky), and the exact sum is rounded
AddFinite(a, b) ==
    LET x == Aligned(a)
        y == Aligned(b)
        a_is_hi == x.e >= y.e
        hi == IF a_is_hi THEN x ELSE y
        lo == IF a_is_hi THEN y ELSE x
        hi_neg == IF a_is_hi THEN a.neg ELSE b.neg
        lo_neg == IF a_is_hi THEN b.neg ELSE a.neg
        diff == hi.e - lo.e
        H == hi.m * 8
        far == diff > 27
        Lo == IF far THEN 0 ELSE (lo.m * 8) \div Pow2(diff)
        sticky == IF far THEN TRUE ELSE (lo.m * 8) % Pow2(diff) # 0
    IN  IF hi_neg = lo_neg THEN Round(hi_neg, H + Lo, hi.e - 3, sticky)
        ELSE IF sticky THEN Round(hi_neg, H - Lo - 1, hi.e - 3, TRUE)
        ELSE IF H = Lo THEN Zero(FALSE)
        ELSE IF H > Lo THEN Round(hi_neg, H - Lo, hi.e - 3, FALSE)
        ELSE Round(lo_neg, Lo - H, hi.e - 3, FALSE)

\* a + b on f32
NumAdd(a, b) ==
    IF a.c = "nan" \/ b.c = "nan" THEN NaN
    ELSE IF a.c = "inf" /\ b.c = "inf" THEN IF a.neg = b.neg THEN a ELSE NaN
    ELSE IF a.c = "inf" THEN a
    ELSE IF b.c = "inf" THEN b
    ELSE IF IsZero(a) /\ IsZero(b) THEN Zero(a.neg /\ b.neg)
    ELSE IF IsZero(a) THEN b
    ELSE IF IsZero(b) THEN a
    ELSE AddFinite(a, b)

\* a * b of two finite non-zero f32: the 48-bit product of the mantissas is
\* computed in halves of 12 bits as hi * 2^24 + lo, and rounded from its
\* 29 leading bits, the bits below remembered in sticky
MulFinite(a, b) ==
    LET a1 == a.m \div 4096
        a0 == a.m % 4096
        b1 == b.m \div 4096
        b0 == b.m % 4096
        mid == a1 * b0 + a0 * b1
        t == a0 * b0 + (mid % 4096) * 4096
        lo == t % 16777216
        hi == a1 * b1 + mid \div 4096 + t \div 16777216
        k == IF 29 - BitLen(hi) < 24 THEN 29 - BitLen(hi) ELSE 24
        neg == a.neg # b.neg
    IN  Round(neg, hi * Pow2(k) + lo \div Pow2(24 - k), a.e + b.e + (24 - k),
              lo % Pow2(24 - k) # 0)

\* a * b on f32
NumMul(a, b) ==
    IF a.c = "nan" \/ b.c = "nan" THEN NaN
    ELSE IF a.c = "inf" \/ b.c = "inf"
    THEN IF IsZero(a) \/ IsZero(b) THEN NaN ELSE Infinity(a.neg # b.neg)
    ELSE IF IsZero(a) \/ IsZero(b) THEN Zero(a.neg # b.neg)
    ELSE MulFinite(a, b)

\* -n on f32
NumNeg(a) == IF a.c = "nan" THEN a ELSE [a EXCEPT !.neg = ~a.neg]

\* l0 == r0 on f32: NaN equals nothing, the two zeros are equal
NumEq(a, b) ==
    /\ a.c # "nan"
    /\ b.c # "nan"
    /\ (a = b \/ (IsZero(a) /\ IsZero(b)))

(***************************************************************************)
(* Decimal literals (f32::from_str of the standard library, which returns  *)
(* the f32 nearest to the decimal value, ties to even).  A natural number  *)
(* of any size is the sequence of its limbs in base 1000, the least        *)
(* significant first, with no leading zero limb (0 is the empty sequence). *)
(***************************************************************************)
BigTrim(x) ==
    LET limbs == <<>> \o x
        set == {i \in 1..Len(limbs) : limbs[i] # 0}
    IN  IF set = {} THEN <<>>
        ELSE SubSeq(limbs, 1,
                    CHOOSE i \in set :
                        \A j \in (i + 1)..Len(limbs) : limbs[j] = 0)

\* One pass of carries: every column keeps its value below 1000 and takes
\* what the column below it has above
BigPass(c) ==
    <<>> \o [i \in 1..Len(c) |->
                (c[i] % 1000) + (IF i > 1 THEN c[i - 1] \div 1000 ELSE 0)]

\* The limbs of columns that are all below 1999: a column takes a carry of
\* one when a column below it is 1000 or more and the columns between are
\* all 999
BigSettle(c) ==
    BigTrim([i \in 1..Len(c) |->
                (c[i] + (IF \E j \in 1..(i - 1) :
                               /\ c[j] >= 1000
                               /\ \A l \in (j + 1)..(i - 1) : c[l] = 999
                         THEN 1 ELSE 0)) % 1000])

\* The number whose value is the sum of cols[i] * 1000^(i-1), every column
\* being a natural number and the value being below 1000^Len(cols): three
\* passes bring every column below 1003
BigCarry(cols) == BigSettle(BigPass(BigPass(BigPass(cols))))

\* x * s, for 0 <= s <= 2^20
BigMulSmall(x, s) ==
    IF x = <<>> \/ s = 0 THEN <<>>
    ELSE BigCarry([i \in 1..(Len(x) + 3) |->
                      IF i <= Len(x) THEN x[i] * s ELSE 0])

\* x * 2^k
RECURSIVE BigMulPow2(_, _)
BigMulPow2(x, k) ==
    IF x = <<>> THEN <<>>
    ELSE IF k <= 20 THEN BigMulSmall(x, Pow2(k))
    ELSE BigMulPow2(BigMulSmall(x, Pow2(20)), k - 20)

\* x >= y: the longer one, or the greater limb at the highest place where
\* they differ
BigGeq(x, y) ==
    IF Len(x) # Len(y) THEN Len(x) > Len(y)
    ELSE LET set == {i \in 1..Len(x) : x[i] # y[i]}
         IN  \/ set = {}
             \/ LET top == CHOOSE i \in set : \A j \in set : j <= i
                IN  x[top] > y[top]

\* x - y, for x >= y: a limb borrows when a lower limb of x is smaller than
\* that of y and the limbs between are equal
BigSub(x, y) ==
    LET Y(i) == IF i <= Len(y) THEN y[i] ELSE 0
        BorrowIn(i) ==
            \E j \in 1..(i - 1) :
                /\ x[j] < Y(j)
                /\ \A l \in (j + 1)..(i - 1) : x[l] = Y(l)
    IN  BigTrim([i \in 1..Len(x) |->
                    (x[i] - Y(i) - (IF BorrowIn(i) THEN 1 ELSE 0) + 1000)
                    % 1000])

\* 10^k
BigPow10(k) ==
    <<>> \o [i \in 1..((k \div 3) + 1) |->
                IF i = (k \div 3) + 1 THEN <<1, 10, 100>>[(k % 3) + 1] ELSE 0]

\* The number written with the decimal digits, the most significant first
BigFromDigits(digits) ==
    LET a == Len(digits)
        D(p) == IF p < a THEN digits[a - p] ELSE 0
    IN  BigTrim([i \in 1..((a + 2) \div 3) |->
                    D(3 * i - 3) + 10 * D(3 * i - 2) + 100 * D(3 * i - 1)])

\* The number of decimal digits of x > 0
BigDigits(x) ==
    LET top == x[Len(x)]
    IN  3 * (Len(x) - 1)
        + (IF top >= 100 THEN 3 ELSE IF top >= 10 THEN 2 ELSE 1)

\* <<0 * d, 1 * d, ..., 19 * d>>
BigMultiples(d) == <<>> \o [t \in 1..20 |-> BigMulSmall(d, t - 1)]

\* floor(n / d), for n < 20 * d, multiples being BigMultiples(d)
BigDigit(n, multiples) ==
    Cardinality({k \in 1..19 : BigGeq(n, multiples[k + 1])})

\* x - t * d
BigRest(x, multiples, t) == BigSub(x, multiples[t + 1])

\* The integer part of n / d and `count` - 1 base-16 digits below it, for
\* n < 20 * d, followed by one more bit that tells whether anything is left
\* below them: twice floor(n * 16^(count-1) / d), plus one when the division
\* is not exact
RECURSIVE Quotient(_, _, _)
Quotient(n, multiples, count) ==
    IF count = 0 THEN IF n # <<>> THEN 1 ELSE 0
    ELSE BigDigit(n, multiples) * Pow2(4 * count - 3)
         + Quotient(BigMulSmall(BigRest(n, multiples, BigDigit(n, multiples)),
                                16),
                    multiples, count - 1)

\* The f32 nearest to n / (d * 2^(0 - e)), for d <= n < 20 * d: the integer
\* part and 24 bits below it are at least 25 bits, so the bit that stands
\* for the rest is below the bit that decides the rounding
NearestQuotient(n, d, e) ==
    Round(FALSE, Quotient(n, BigMultiples(d), 7), e - 25, FALSE)

\* The f32 nearest to N / 10^scale, for N > 0 and scale >= 0 and x the
\* decimal exponent of the leading digit, so that the value v is in
\* [10^x, 10^(x+1)): above 10^39 it rounds to infinity and below 10^-46 to
\* zero.  Otherwise e is floor(x * log2(10)), for which 332193 / 100000 is
\* exact on -47..39, and v / 2^e is in [1, 20)
NearestDecimal(N, scale, x, e) ==
    IF x > 38 THEN Infinity(FALSE)
    ELSE IF x < 0 - 46 THEN Zero(FALSE)
    ELSE IF e < 0 THEN NearestQuotient(BigMulPow2(N, 0 - e), BigPow10(scale), e)
    ELSE NearestQuotient(N, BigMulPow2(BigPow10(scale), e), e)

NearestScaled(N, scale, x) ==
    NearestDecimal(N, scale, x, (x * 332193) \div 100000)

NearestBig(N, scale) ==
    IF N = <<>> THEN Zero(FALSE)
    ELSE NearestScaled(N, scale, BigDigits(N) - 1 - scale)

\* The f32 nearest to digits / 10^scale, digits being decimal digits with
\* the most significant first and scale >= 0
DecimalToF32(digits, scale) == NearestBig(BigFromDigits(digits), scale)

(***************************************************************************)
(* atom.rs: impl PartialEq for Atom.  Two NativeFunction atoms are always  *)
(* equal; Nil equals Nil by the discriminant arm; closures compare their   *)
(* upvalues and code with the same equality.                               *)
(***************************************************************************)
RECURSIVE AtomEq(_, _)
RECURSIVE ListEq(_, _)
ListEq(l, r) ==
    /\ Len(l) = Len(r)
    /\ \A i \in 1..Len(l) : AtomEq(l[i], r[i])

ClosureEq(l, r) ==
    /\ l.upvalues.some = r.upvalues.some
    /\ ListEq(l.upvalues.v, r.upvalues.v)
    /\ ListEq(l.code, r.code)

AtomEq(l, r) ==
    IF l.t # r.t THEN FALSE
    ELSE CASE l.t = "Symbol" -> l.s = r.s
           [] l.t = "Number" -> NumEq(l, r)
           [] l.t = "String" -> l.s = r.s
           [] l.t = "List" -> ListEq(l.l, r.l)
           [] l.t = "Bool" -> l.b = r.b
           [] l.t = "Error" -> l.err = r.err
           [] l.t = "Upvalue" -> l.i = r.i /\ l.s = r.s
           [] l.t = "Closure" -> ClosureEq(l.c, r.c)
           [] l.t = "NativeFunction" -> TRUE
           [] OTHER -> TRUE

(***************************************************************************)
(* closure.rs                                                              *)
(***************************************************************************)
\* upvalue_symbols.iter().enumerate().find(|(_, upval)| *upval == symb):
\* the first 0-based position of symb in the names, or -1
FindUpvalue(upvalue_symbols, symb) ==
    LET hits == {i \in 1..Len(upvalue_symbols) : upvalue_symbols[i] = symb}
    IN  IF hits = {} THEN 0 - 1
        ELSE (CHOOSE i \in hits : \A j \in hits : i <= j) - 1

\* upvalueize_symbols that does not descend into nested lists
upvalueize_symbols_shallow(code, upvalue_symbols) ==
    [k \in 1..Len(code) |->
        LET atom == code[k]
        IN  IF atom.t = "Symbol"
            THEN LET i == FindUpvalue(upvalue_symbols, atom.s)
                 IN  IF i >= 0 THEN Upvalue(i, upvalue_symbols[i + 1]) ELSE atom
            ELSE atom]

RECURSIVE upvalueize_symbols(_, _)
upvalueize_symbols(code, upvalue_symbols) ==
    [k \in 1..Len(code) |->
        LET atom == code[k]
        IN  IF atom.t = "Symbol"
            THEN LET i == FindUpvalue(upvalue_symbols, atom.s)
                 IN  IF i >= 0 THEN Upvalue(i, upvalue_symbols[i + 1]) ELSE atom
            ELSE IF atom.t = "List"
            THEN List(upvalueize_symbols(atom.l, upvalue_symbols))
            ELSE atom]

compile_thin(code) == [upvalues |-> NoUpvalues, code |-> code]

compile(code, upvalue_symbols) ==
    IF upvalue_symbols = <<>> THEN compile_thin(code)
    ELSE [upvalues |->
              SomeUpvalues([k \in 1..Len(upvalue_symbols) |->
                               Symbol(upvalue_symbols[k])]),
          code |-> upvalueize_symbols(code, upvalue_symbols)]

\* Closure::resolve_ref: the slot, or Nil when there is no such slot
resolve_ref(self, upvalue_ref) ==
    IF self.upvalues.some /\ upvalue_ref.i + 1 \in 1..Len(self.upvalues.v)
    THEN self.upvalues.v[upvalue_ref.i + 1]
    ELSE Nil

\* Closure::resolve
closure_resolve(self, atom) ==
    IF atom.t = "Upvalue" THEN resolve_ref(self, atom) ELSE atom

(***************************************************************************)
(* parser.rs                                                               *)
(***************************************************************************)
\* A char is its code point, a Unicode scalar value.  The characters the
\* parser names:
\*   '"' is 34, '(' is 40, ')' is 41, '.' is 46, '0'..'9' are 48..57
\* The ranges of the characters above U+007F with the Unicode property
\* Alphabetic (Unicode 17.0), each <<first, last>>
AlphabeticRanges ==
    {<<170, 170>>, <<181, 181>>, <<186, 186>>, <<192, 214>>, <<216, 246>>,
     <<248, 705>>, <<710, 721>>, <<736, 740>>, <<748, 748>>, <<750, 750>>,
     <<837, 837>>, <<867, 884>>, <<886, 887>>, <<890, 893>>, <<895, 895>>,
     <<902, 902>>, <<904, 906>>, <<908, 908>>, <<910, 929>>, <<931, 1013>>,
     <<1015, 1153>>, <<1162, 1327>>, <<1329, 1366>>, <<1369, 1369>>,
     <<1376, 1416>>, <<1456, 1469>>, <<1471, 1471>>, <<1473, 1474>>,
     <<1476, 1477>>, <<1479, 1479>>, <<1488, 1514>>, <<1519, 1522>>,
     <<1552, 1562>>, <<1568, 1623>>, <<1625, 1631>>, <<1646, 1747>>,
     <<1749, 1756>>, <<1761, 1768>>, <<1773, 1775>>, <<1786, 1788>>,
     <<1791, 1791>>, <<1808, 1855>>, <<1869, 1969>>, <<1994, 2026>>,
     <<2036, 2037>>, <<2042, 2042>>, <<2048, 2071>>, <<2074, 2092>>,
     <<2112, 2136>>, <<2144, 2154>>, <<2160, 2183>>, <<2185, 2191>>,
     <<2199, 2199>>, <<2208, 2249>>, <<2260, 2271>>, <<2275, 2281>>,
     <<2288, 2363>>, <<2365, 2380>>, <<2382, 2384>>, <<2389, 2403>>,
     <<2417, 2435>>, <<2437, 2444>>, <<2447, 2448>>, <<2451, 2472>>,
     <<2474, 2480>>, <<2482, 2482>>, <<2486, 2489>>, <<2493, 2500>>,
     <<2503, 2504>>, <<2507, 2508>>, <<2510, 2510>>, <<2519, 2519>>,
     <<2524, 2525>>, <<2527, 2531>>, <<2544, 2545>>, <<2556, 2556>>,
     <<2561, 2563>>, <<2565, 2570>>, <<2575, 2576>>, <<2579, 2600>>,
     <<2602, 2608>>, <<2610, 2611>>, <<2613, 2614>>, <<2616, 2617>>,
     <<2622, 2626>>, <<2631, 2632>>, <<2635, 2636>>, <<2641, 2641>>,
     <<2649, 2652>>, <<2654, 2654>>, <<2672, 2677>>, <<2689, 2691>>,
     <<2693, 2701>>, <<2703, 2705>>, <<2707, 2728>>, <<2730, 2736>>,
     <<2738, 2739>>, <<2741, 2745>>, <<2749, 2757>>, <<2759, 2761>>,
     <<2763, 2764>>, <<2768, 2768>>, <<2784, 2787>>, <<2809, 2812>>,
     <<2817, 2819>>, <<2821, 2828>>, <<2831, 2832>>, <<2835, 2856>>,
     <<2858, 2864>>, <<2866, 2867>>, <<2869, 2873>>, <<2877, 2884>>,
     <<2887, 2888>>, <<2891, 2892>>, <<2902, 2903>>, <<2908, 2909>>,
     <<2911, 2915>>, <<2929, 2929>>, <<2946, 2947>>, <<2949, 2954>>,
     <<2958, 2960>>, <<2962, 2965>>, <<2969, 2970>>, <<2972, 2972>>,
     <<2974, 2975>>, <<2979, 2980>>, <<2984, 2986>>, <<2990, 3001>>,
     <<3006, 3010>>, <<3014, 3016>>, <<3018, 3020>>, <<3024, 3024>>,
     <<3031, 3031>>, <<3072, 3084>>, <<3086, 3088>>, <<3090, 3112>>,
     <<3114, 3129>>, <<3133, 3140>>, <<3142, 3144>>, <<3146, 3148>>,
     <<3157, 3158>>, <<3160, 3162>>, <<3164, 3165>>, <<3168, 3171>>,
     <<3200, 3203>>, <<3205, 3212>>, <<3214, 3216>>, <<3218, 3240>>,
     <<3242, 3251>>, <<3253, 3257>>, <<3261, 3268>>, <<3270, 3272>>,
     <<3274, 3276>>, <<3285, 3286>>, <<3292, 3294>>, <<3296, 3299>>,
     <<3313, 3315>>, <<3328, 3340>>, <<3342, 3344>>, <<3346, 3386>>,
     <<3389, 3396>>, <<3398, 3400>>, <<3402, 3404>>, <<3406, 3406>>,
     <<3412, 3415>>, <<3423, 3427>>, <<3450, 3455>>, <<3457, 3459>>,
     <<3461, 3478>>, <<3482, 3505>>, <<3507, 3515>>, <<3517, 3517>>,
     <<3520, 3526>>, <<3535, 3540>>, <<3542, 3542>>, <<3544, 3551>>,
     <<3570, 3571>>, <<3585, 3642>>, <<3648, 3654>>, <<3661, 3661>>,
     <<3713, 3714>>, <<3716, 3716>>, <<3718, 3722>>, <<3724, 3747>>,
     <<3749, 3749>>, <<3751, 3769>>, <<3771, 3773>>, <<3776, 3780>>,
     <<3782, 3782>>, <<3789, 3789>>, <<3804, 3807>>, <<3840, 3840>>,
     <<3904, 3911>>, <<3913, 3948>>, <<3953, 3971>>, <<3976, 3991>>,
     <<3993, 4028>>, <<4096, 4150>>, <<4152, 4152>>, <<4155, 4159>>,
     <<4176, 4239>>, <<4250, 4253>>, <<4256, 4293>>, <<4295, 4295>>,
     <<4301, 4301>>, <<4304, 4346>>, <<4348, 4680>>, <<4682, 4685>>,
     <<4688, 4694>>, <<4696, 4696>>, <<4698, 4701>>, <<4704, 4744>>,
     <<4746, 4749>>, <<4752, 4784>>, <<4786, 4789>>, <<4792, 4798>>,
     <<4800, 4800>>, <<4802, 4805>>, <<4808, 4822>>, <<4824, 4880>>,
     <<4882, 4885>>, <<4888, 4954>>, <<4992, 5007>>, <<5024, 5109>>,
     <<5112, 5117>>, <<5121, 5740>>, <<5743, 5759>>, <<5761, 5786>>,
     <<5792, 5866>>, <<5870, 5880>>, <<5888, 5907>>, <<5919, 5939>>,
     <<5952, 5971>>, <<5984, 5996>>, <<5998, 6000>>, <<6002, 6003>>,
     <<6016, 6067>>, <<6070, 6088>>, <<6103, 6103>>, <<6108, 6108>>,
     <<6176, 6264>>, <<6272, 6314>>, <<6320, 6389>>, <<6400, 6430>>,
     <<6432, 6443>>, <<6448, 6456>>, <<6480, 6509>>, <<6512, 6516>>,
     <<6528, 6571>>, <<6576, 6601>>, <<6656, 6683>>, <<6688, 6750>>,
     <<6753, 6772>>, <<6823, 6823>>, <<6847, 6848>>, <<6860, 6862>>,
     <<6912, 6963>>, <<6965, 6979>>, <<6981, 6988>>, <<7040, 7081>>,
     <<7084, 7087>>, <<7098, 7141>>, <<7143, 7153>>, <<7168, 7222>>,
     <<7245, 7247>>, <<7258, 7293>>, <<7296, 7306>>, <<7312, 7354>>,
     <<7357, 7359>>, <<7401, 7404>>, <<7406, 7411>>, <<7413, 7414>>,
     <<7418, 7418>>, <<7424, 7615>>, <<7635, 7668>>, <<7680, 7957>>,
     <<7960, 7965>>, <<7968, 8005>>, <<8008, 8013>>, <<8016, 8023>>,
     <<8025, 8025>>, <<8027, 8027>>, <<8029, 8029>>, <<8031, 8061>>,
     <<8064, 8116>>, <<8118, 8124>>, <<8126, 8126>>, <<8130, 8132>>,
     <<8134, 8140>>, <<8144, 8147>>, <<8150, 8155>>, <<8160, 8172>>,
     <<8178, 8180>>, <<8182, 8188>>, <<8305, 8305>>, <<8319, 8319>>,
     <<8336, 8348>>, <<8450, 8450>>, <<8455, 8455>>, <<8458, 8467>>,
     <<8469, 8469>>, <<8473, 8477>>, <<8484, 8484>>, <<8486, 8486>>,
     <<8488, 8488>>, <<8490, 8493>>, <<8495, 8505>>, <<8508, 8511>>,
     <<8517, 8521>>, <<8526, 8526>>, <<8544, 8584>>, <<9398, 9449>>,
     <<11264, 11492>>, <<11499, 11502>>, <<11506, 11507>>, <<11520, 11557>>,
     <<11559, 11559>>, <<11565, 11565>>, <<11568, 11623>>, <<11631, 11631>>,
     <<11648, 11670>>, <<11680, 11686>>, <<11688, 11694>>, <<11696, 11702>>,
     <<11704, 11710>>, <<11712, 11718>>, <<11720, 11726>>, <<11728, 11734>>,
     <<11736, 11742>>, <<11744, 11775>>, <<11823, 11823>>, <<12293, 12295>>,
     <<12321, 12329>>, <<12337, 12341>>, <<12344, 12348>>, <<12353, 12438>>,
     <<12445, 12447>>, <<12449, 12538>>, <<12540, 12543>>, <<12549, 12591>>,
     <<12593, 12686>>, <<12704, 12735>>, <<12784, 12799>>, <<13312, 19903>>,
     <<19968, 42124>>, <<42192, 42237>>, <<42240, 42508>>, <<42512, 42527>>,
     <<42538, 42539>>, <<42560, 42606>>, <<42612, 42619>>, <<42623, 42735>>,
     <<42775, 42783>>, <<42786, 42888>>, <<42891, 42972>>, <<42993, 43013>>,
     <<43015, 43047>>, <<43072, 43123>>, <<43136, 43203>>, <<43205, 43205>>,
     <<43250, 43255>>, <<43259, 43259>>, <<43261, 43263>>, <<43274, 43306>>,
     <<43312, 43346>>, <<43360, 43388>>, <<43392, 43442>>, <<43444, 43455>>,
     <<43471, 43471>>, <<43488, 43503>>, <<43514, 43518>>, <<43520, 43574>>,
     <<43584, 43597>>, <<43616, 43638>>, <<43642, 43710>>, <<43712, 43712>>,
     <<43714, 43714>>, <<43739, 43741>>, <<43744, 43759>>, <<43762, 43765>>,
     <<43777, 43782>>, <<43785, 43790>>, <<43793, 43798>>, <<43808, 43814>>,
     <<43816, 43822>>, <<43824, 43866>>, <<43868, 43881>>, <<43888, 44010>>,
     <<44032, 55203>>, <<55216, 55238>>, <<55243, 55291>>, <<63744, 64109>>,
     <<64112, 64217>>, <<64256, 64262>>, <<64275, 64279>>, <<64285, 64296>>,
     <<64298, 64310>>, <<64312, 64316>>, <<64318, 64318>>, <<64320, 64321>>,
     <<64323, 64324>>, <<64326, 64433>>, <<64467, 64829>>, <<64848, 64911>>,
     <<64914, 64967>>, <<65008, 65019>>, <<65136, 65140>>, <<65142, 65276>>,
     <<65313, 65338>>, <<65345, 65370>>, <<65382, 65470>>, <<65474, 65479>>,
     <<65482, 65487>>, <<65490, 65495>>, <<65498, 65500>>, <<65536, 65547>>,
     <<65549, 65574>>, <<65576, 65594>>, <<65596, 65597>>, <<65599, 65613>>,
     <<65616, 65629>>, <<65664, 65786>>, <<65856, 65908>>, <<66176, 66204>>,
     <<66208, 66256>>, <<66304, 66335>>, <<66349, 66378>>, <<66384, 66426>>,
     <<66432, 66461>>, <<66464, 66499>>, <<66504, 66511>>, <<66513, 66517>>,
     <<66560, 66717>>, <<66736, 66771>>, <<66776, 66811>>, <<66816, 66855>>,
     <<66864, 66915>>, <<66928, 66938>>, <<66940, 66954>>, <<66956, 66962>>,
     <<66964, 66965>>, <<66967, 66977>>, <<66979, 66993>>, <<66995, 67001>>,
     <<67003, 67004>>, <<67008, 67059>>, <<67072, 67382>>, <<67392, 67413>>,
     <<67424, 67431>>, <<67456, 67461>>, <<67463, 67504>>, <<67506, 67514>>,
     <<67584, 67589>>, <<67592, 67592>>, <<67594, 67637>>, <<67639, 67640>>,
     <<67644, 67644>>, <<67647, 67669>>, <<67680, 67702>>, <<67712, 67742>>,
     <<67808, 67826>>, <<67828, 67829>>, <<67840, 67861>>, <<67872, 67897>>,
     <<67904, 67929>>, <<67968, 68023>>, <<68030, 68031>>, <<68096, 68099>>,
     <<68101, 68102>>, <<68108, 68115>>, <<68117, 68119>>, <<68121, 68149>>,
     <<68192, 68220>>, <<68224, 68252>>, <<68288, 68295>>, <<68297, 68324>>,
     <<68352, 68405>>, <<68416, 68437>>, <<68448, 68466>>, <<68480, 68497>>,
     <<68608, 68680>>, <<68736, 68786>>, <<68800, 68850>>, <<68864, 68903>>,
     <<68938, 68965>>, <<68969, 68969>>, <<68975, 68997>>, <<69248, 69289>>,
     <<69291, 69292>>, <<69296, 69297>>, <<69314, 69319>>, <<69370, 69372>>,
     <<69376, 69404>>, <<69415, 69415>>, <<69424, 69445>>, <<69488, 69505>>,
     <<69552, 69572>>, <<69600, 69622>>, <<69632, 69701>>, <<69745, 69749>>,
     <<69760, 69816>>, <<69826, 69826>>, <<69840, 69864>>, <<69888, 69938>>,
     <<69956, 69959>>, <<69968, 70002>>, <<70006, 70006>>, <<70016, 70079>>,
     <<70081, 70084>>, <<70094, 70095>>, <<70106, 70106>>, <<70108, 70108>>,
     <<70144, 70161>>, <<70163, 70196>>, <<70199, 70199>>, <<70206, 70209>>,
     <<70272, 70278>>, <<70280, 70280>>, <<70282, 70285>>, <<70287, 70301>>,
     <<70303, 70312>>, <<70320, 70376>>, <<70400, 70403>>, <<70405, 70412>>,
     <<70415, 70416>>, <<70419, 70440>>, <<70442, 70448>>, <<70450, 70451>>,
     <<70453, 70457>>, <<70461, 70468>>, <<70471, 70472>>, <<70475, 70476>>,
     <<70480, 70480>>, <<70487, 70487>>, <<70493, 70499>>, <<70528, 70537>>,
     <<70539, 70539>>, <<70542, 70542>>, <<70544, 70581>>, <<70583, 70592>>,
     <<70594, 70594>>, <<70597, 70597>>, <<70599, 70602>>, <<70604, 70605>>,
     <<70609, 70609>>, <<70611, 70611>>, <<70656, 70721>>, <<70723, 70725>>,
     <<70727, 70730>>, <<70751, 70753>>, <<70784, 70849>>, <<70852, 70853>>,
     <<70855, 70855>>, <<71040, 71093>>, <<71096, 71102>>, <<71128, 71133>>,
     <<71168, 71230>>, <<71232, 71232>>, <<71236, 71236>>, <<71296, 71349>>,
     <<71352, 71352>>, <<71424, 71450>>, <<71453, 71466>>, <<71488, 71494>>,
     <<71680, 71736>>, <<71840, 71903>>, <<71935, 71942>>, <<71945, 71945>>,
     <<71948, 71955>>, <<71957, 71958>>, <<71960, 71989>>, <<71991, 71992>>,
     <<71995, 71996>>, <<71999, 72002>>, <<72096, 72103>>, <<72106, 72151>>,
     <<72154, 72159>>, <<72161, 72161>>, <<72163, 72164>>, <<72192, 72242>>,
     <<72245, 72254>>, <<72272, 72343>>, <<72349, 72349>>, <<72368, 72440>>,
     <<72544, 72551>>, <<72640, 72672>>, <<72704, 72712>>, <<72714, 72758>>,
     <<72760, 72766>>, <<72768, 72768>>, <<72818, 72847>>, <<72850, 72871>>,
     <<72873, 72886>>, <<72960, 72966>>, <<72968, 72969>>, <<72971, 73014>>,
     <<73018, 73018>>, <<73020, 73021>>, <<73023, 73025>>, <<73027, 73027>>,
     <<73030, 73031>>, <<73056, 73061>>, <<73063, 73064>>, <<73066, 73102>>,
     <<73104, 73105>>, <<73107, 73110>>, <<73112, 73112>>, <<73136, 73179>>,
     <<73440, 73462>>, <<73472, 73488>>, <<73490, 73530>>, <<73534, 73536>>,
     <<73648, 73648>>, <<73728, 74649>>, <<74752, 74862>>, <<74880, 75075>>,
     <<77712, 77808>>, <<77824, 78895>>, <<78913, 78918>>, <<78944, 82938>>,
     <<82944, 83526>>, <<90368, 90414>>, <<92160, 92728>>, <<92736, 92766>>,
     <<92784, 92862>>, <<92880, 92909>>, <<92928, 92975>>, <<92992, 92995>>,
     <<93027, 93047>>, <<93053, 93071>>, <<93504, 93548>>, <<93760, 93823>>,
     <<93856, 93880>>, <<93883, 93907>>, <<93952, 94026>>, <<94031, 94087>>,
     <<94095, 94111>>, <<94176, 94177>>, <<94179, 94179>>, <<94192, 94198>>,
     <<94208, 101589>>, <<101631, 101662>>, <<101760, 101874>>,
     <<110576, 110579>>, <<110581, 110587>>, <<110589, 110590>>,
     <<110592, 110882>>, <<110898, 110898>>, <<110928, 110930>>,
     <<110933, 110933>>, <<110948, 110951>>, <<110960, 111355>>,
     <<113664, 113770>>, <<113776, 113788>>, <<113792, 113800>>,
     <<113808, 113817>>, <<113822, 113822>>, <<119808, 119892>>,
     <<119894, 119964>>, <<119966, 119967>>, <<119970, 119970>>,
     <<119973, 119974>>, <<119977, 119980>>, <<119982, 119993>>,
     <<119995, 119995>>, <<119997, 120003>>, <<120005, 120069>>,
     <<120071, 120074>>, <<120077, 120084>>, <<120086, 120092>>,
     <<120094, 120121>>, <<120123, 120126>>, <<120128, 120132>>,
     <<120134, 120134>>, <<120138, 120144>>, <<120146, 120485>>,
     <<120488, 120512>>, <<120514, 120538>>, <<120540, 120570>>,
     <<120572, 120596>>, <<120598, 120628>>, <<120630, 120654>>,
     <<120656, 120686>>, <<120688, 120712>>, <<120714, 120744>>,
     <<120746, 120770>>, <<120772, 120779>>, <<122624, 122654>>,
     <<122661, 122666>>, <<122880, 122886>>, <<122888, 122904>>,
     <<122907, 122913>>, <<122915, 122916>>, <<122918, 122922>>,
     <<122928, 122989>>, <<123023, 123023>>, <<123136, 123180>>,
     <<123191, 123197>>, <<123214, 123214>>, <<123536, 123565>>,
     <<123584, 123627>>, <<124112, 124139>>, <<124368, 124397>>,
     <<124400, 124400>>, <<124608, 124638>>, <<124640, 124661>>,
     <<124670, 124671>>, <<124896, 124902>>, <<124904, 124907>>,
     <<124909, 124910>>, <<124912, 124926>>, <<124928, 125124>>,
     <<125184, 125251>>, <<125255, 125255>>, <<125259, 125259>>,
     <<126464, 126467>>, <<126469, 126495>>, <<126497, 126498>>,
     <<126500, 126500>>, <<126503, 126503>>, <<126505, 126514>>,
     <<126516, 126519>>, <<126521, 126521>>, <<126523, 126523>>,
     <<126530, 126530>>, <<126535, 126535>>, <<126537, 126537>>,
     <<126539, 126539>>, <<126541, 126543>>, <<126545, 126546>>,
     <<126548, 126548>>, <<126551, 126551>>, <<126553, 126553>>,
     <<126555, 126555>>, <<126557, 126557>>, <<126559, 126559>>,
     <<126561, 126562>>, <<126564, 126564>>, <<126567, 126570>>,
     <<126572, 126578>>, <<126580, 126583>>, <<126585, 126588>>,
     <<126590, 126590>>, <<126592, 126601>>, <<126603, 126619>>,
     <<126625, 126627>>, <<126629, 126633>>, <<126635, 126651>>,
     <<127280, 127305>>, <<127312, 127337>>, <<127344, 127369>>,
     <<131072, 173791>>, <<173824, 178205>>, <<178208, 183981>>,
     <<183984, 191456>>, <<191472, 192093>>, <<194560, 195101>>,
     <<196608, 201546>>, <<201552, 210041>>}

\* The ranges of the characters above U+007F of the general categories Nd,
\* Nl and No (Unicode 17.0), each <<first, last>>
NumericRanges ==
    {<<178, 179>>, <<185, 185>>, <<188, 190>>, <<1632, 1641>>, <<1776, 1785>>,
     <<1984, 1993>>, <<2406, 2415>>, <<2534, 2543>>, <<2548, 2553>>,
     <<2662, 2671>>, <<2790, 2799>>, <<2918, 2927>>, <<2930, 2935>>,
     <<3046, 3058>>, <<3174, 3183>>, <<3192, 3198>>, <<3302, 3311>>,
     <<3416, 3422>>, <<3430, 3448>>, <<3558, 3567>>, <<3664, 3673>>,
     <<3792, 3801>>, <<3872, 3891>>, <<4160, 4169>>, <<4240, 4249>>,
     <<4969, 4988>>, <<5870, 5872>>, <<6112, 6121>>, <<6128, 6137>>,
     <<6160, 6169>>, <<6470, 6479>>, <<6608, 6618>>, <<6784, 6793>>,
     <<6800, 6809>>, <<6992, 7001>>, <<7088, 7097>>, <<7232, 7241>>,
     <<7248, 7257>>, <<8304, 8304>>, <<8308, 8313>>, <<8320, 8329>>,
     <<8528, 8578>>, <<8581, 8585>>, <<9312, 9371>>, <<9450, 9471>>,
     <<10102, 10131>>, <<11517, 11517>>, <<12295, 12295>>, <<12321, 12329>>,
     <<12344, 12346>>, <<12690, 12693>>, <<12832, 12841>>, <<12872, 12879>>,
     <<12881, 12895>>, <<12928, 12937>>, <<12977, 12991>>, <<42528, 42537>>,
     <<42726, 42735>>, <<43056, 43061>>, <<43216, 43225>>, <<43264, 43273>>,
     <<43472, 43481>>, <<43504, 43513>>, <<43600, 43609>>, <<44016, 44025>>,
     <<65296, 65305>>, <<65799, 65843>>, <<65856, 65912>>, <<65930, 65931>>,
     <<66273, 66299>>, <<66336, 66339>>, <<66369, 66369>>, <<66378, 66378>>,
     <<66513, 66517>>, <<66720, 66729>>, <<67672, 67679>>, <<67705, 67711>>,
     <<67751, 67759>>, <<67835, 67839>>, <<67862, 67867>>, <<68028, 68029>>,
     <<68032, 68047>>, <<68050, 68095>>, <<68160, 68168>>, <<68221, 68222>>,
     <<68253, 68255>>, <<68331, 68335>>, <<68440, 68447>>, <<68472, 68479>>,
     <<68521, 68527>>, <<68858, 68863>>, <<68912, 68921>>, <<68928, 68937>>,
     <<69216, 69246>>, <<69405, 69414>>, <<69457, 69460>>, <<69573, 69579>>,
     <<69714, 69743>>, <<69872, 69881>>, <<69942, 69951>>, <<70096, 70105>>,
     <<70113, 70132>>, <<70384, 70393>>, <<70736, 70745>>, <<70864, 70873>>,
     <<71248, 71257>>, <<71360, 71369>>, <<71376, 71395>>, <<71472, 71483>>,
     <<71904, 71922>>, <<72016, 72025>>, <<72688, 72697>>, <<72784, 72812>>,
     <<73040, 73049>>, <<73120, 73129>>, <<73184, 73193>>, <<73552, 73561>>,
     <<73664, 73684>>, <<74752, 74862>>, <<90416, 90425>>, <<92768, 92777>>,
     <<92864, 92873>>, <<93008, 93017>>, <<93019, 93025>>, <<93552, 93561>>,
     <<93824, 93846>>, <<94196, 94198>>, <<118000, 118009>>,
     <<119488, 119507>>, <<119520, 119539>>, <<119648, 119672>>,
     <<120782, 120831>>, <<123200, 123209>>, <<123632, 123641>>,
     <<124144, 124153>>, <<124401, 124410>>, <<125127, 125135>>,
     <<125264, 125273>>, <<126065, 126123>>, <<126125, 126127>>,
     <<126129, 126132>>, <<126209, 126253>>, <<126255, 126269>>,
     <<127232, 127244>>, <<130032, 130041>>}

\* The characters with the Unicode property White_Space
Whitespace ==
    (9..13) \cup {32, 133, 160, 5760} \cup (8192..8202)
    \cup {8232, 8233, 8239, 8287, 12288}

\* The ASCII letters
AsciiAlphabetic == (65..90) \cup (97..122)

\* The ASCII digits
AsciiDigit == 48..57

\* The ASCII punctuation
AsciiPunctuation == (33..47) \cup (58..64) \cup (91..96) \cup (123..126)

InRanges(c, ranges) == \E r \in ranges : r[1] <= c /\ c <= r[2]

\* char::is_alphabetic: the ASCII letters, or above U+007F the Unicode table
is_alphabetic(c) == c \in AsciiAlphabetic \/ (c > 127 /\ InRanges(c, AlphabeticRanges))

\* char::is_numeric: the ASCII digits, or above U+007F the Unicode table
is_numeric(c) == c \in AsciiDigit \/ (c > 127 /\ InRanges(c, NumericRanges))

is_alphanumeric(c) == is_alphabetic(c) \/ is_numeric(c)

is_ascii_punctuation(c) == c \in AsciiPunctuation

is_whitespace(c) == c \in Whitespace

\* ReadingState
StNone == [kind |-> "None"]

StSymbol(start) == [kind |-> "Symbol", start |-> start]

StNumber(start) == [kind |-> "Number", start |-> start]

StString(start) == [kind |-> "String", start |-> start]

StList(start, depth, in_string) ==
    [kind |-> "List", start |-> start, depth |-> depth, in_string |-> in_string]

\* ParseError
InvalidCharacter(pos) == [kind |-> "InvalidCharacter", pos |-> pos]

NumberError(pos) == [kind |-> "NumberError", pos |-> pos]

IncompleteString == [kind |-> "IncompleteString"]

IncompleteList == [kind |-> "IncompleteList"]

\* The characters U+0020..U+007E as TLA+ strings.  A &str is written as a
\* TLA+ string, character by character: a printable ASCII character as
\* itself, but the backslash doubled, and any other character, the
\* backquote included, as \u{its code point in hexadecimal}
PrintableAscii ==
    <<" ", "!", "\"", "#", "$", "%", "&", "'", "(", ")", "*", "+", ",", "-",
      ".", "/", "0", "1", "2", "3", "4", "5", "6", "7", "8", "9", ":", ";",
      "<", "=", ">", "?", "@", "A", "B", "C", "D", "E", "F", "G", "H", "I",
      "J", "K", "L", "M", "N", "O", "P", "Q", "R", "S", "T", "U", "V", "W",
      "X", "Y", "Z", "[", "\\\\", "]", "^", "_", "\\u{60}", "a", "b", "c",
      "d", "e", "f", "g", "h", "i", "j", "k", "l", "m", "n", "o", "p", "q",
      "r", "s", "t", "u", "v", "w", "x", "y", "z", "{", "|", "}", "~">>

HexDigits ==
    <<"0", "1", "2", "3", "4", "5", "6", "7", "8", "9",
      "a", "b", "c", "d", "e", "f">>

RECURSIVE Hex(_)
Hex(n) ==
    IF n < 16 THEN HexDigits[n + 1] ELSE Hex(n \div 16) \o HexDigits[(n % 16) + 1]

Chr(c) ==
    IF c \in 32..126 THEN PrintableAscii[c - 31] ELSE "\\u{" \o Hex(c) \o "}"

\* the &str made of the characters of a slice
RECURSIVE Join(_)
Join(chars) ==
    IF chars = <<>> THEN ""
    ELSE IF Len(chars) = 1 THEN Chr(chars[1])
    ELSE Join(SubSeq(chars, 1, Len(chars) \div 2))
         \o Join(SubSeq(chars, (Len(chars) \div 2) + 1, Len(chars)))

\* char::len_utf8
len_utf8(c) ==
    IF c < 128 THEN 1 ELSE IF c < 2048 THEN 2 ELSE IF c < 65536 THEN 3 ELSE 4

\* The byte offset of character number k of the text, the number of
\* bytes of the k characters before it: str::len for k = Len(input)
ByteOffset(input, k) ==
    Cardinality({ib \in (1..k) \X (1..4) : ib[2] <= len_utf8(input[ib[1]])})

\* input.len()
ByteLen(input) == ByteOffset(input, Len(input))

\* What an operation that may panic yields
Panicked == [ok |-> FALSE, panic |-> TRUE]

\* &input[a..b]: a and b are byte offsets.  The slice is the characters in
\* between when both fall on character boundaries and a <= b; the
\* indexing panics when they do not
Slice(input, a, b) ==
    LET Boundary(x) == {k \in 0..Len(input) : ByteOffset(input, k) = x}
    IN  IF a <= b /\ Boundary(a) # {} /\ Boundary(b) # {}
        THEN [ok |-> TRUE,
              chars |-> SubSeq(input, (CHOOSE k \in Boundary(a) : TRUE) + 1,
                               CHOOSE k \in Boundary(b) : TRUE)]
        ELSE Panicked

RECURSIVE exponent_digits(_, _, _, _)
\* The digits lo + 1 .. hi of an Exp, read one after the other into the
\* exponent read before them: the first half of them, then the second
\* half.  core::num::dec2flt reads a digit as
\*   if exponent < 0x10000 { exponent = 10 * exponent + digit }
\* so that the digits after a value of 65536 or more are left out
exponent_digits(digits, exponent, lo, hi) ==
    IF exponent >= 65536 \/ lo = hi THEN exponent
    ELSE IF hi = lo + 1 THEN 10 * exponent + digits[hi]
    ELSE exponent_digits(digits,
                         exponent_digits(digits, exponent, lo, (lo + hi) \div 2),
                         (lo + hi) \div 2, hi)

\* The value the digits of an Exp are read as
exponent_value(digits) == exponent_digits(digits, 0, 0, Len(digits))

AsciiDigits(q) == \A i \in 1..Len(q) : q[i] \in 48..57

DigitValues(q) == [i \in 1..Len(q) |-> q[i] - 48]

\* The characters with the ASCII capitals made small
LowerCase(q) ==
    [i \in 1..Len(q) |-> IF q[i] \in 65..90 THEN q[i] + 32 ELSE q[i]]

\* Exp ::= 'e' Sign? Digit+, after the 'e': the value when well formed
exponent_of(q) ==
    IF q # <<>> /\ q[1] \in {43, 45}
    THEN IF Len(q) > 1 /\ AsciiDigits(Tail(q))
         THEN [ok |-> TRUE,
               val |-> IF q[1] = 45 THEN 0 - exponent_value(DigitValues(Tail(q)))
                       ELSE exponent_value(DigitValues(Tail(q)))]
         ELSE [ok |-> FALSE]
    ELSE IF q # <<>> /\ AsciiDigits(q)
    THEN [ok |-> TRUE, val |-> exponent_value(DigitValues(q))]
    ELSE [ok |-> FALSE]

\* digits / 10^scale for any scale: a negative scale appends zeros, and
\* past a hundred of them the value is above every f32 already
decimal_scaled(digits, scale) ==
    IF scale >= 0 THEN DecimalToF32(digits, scale)
    ELSE DecimalToF32(digits \o [i \in 1..(IF scale < 0 - 100 THEN 100
                                           ELSE 0 - scale) |-> 0], 0)

\* The digits up to the one at place last, the zeros after it taken off
\* the scale
decimal_cut(digits, scale, last) ==
    decimal_scaled(SubSeq(digits, 1, last), scale - (Len(digits) - last))

\* set holds the places of the digits other than 0
decimal_set(digits, scale, set) ==
    IF set = {} THEN Zero(FALSE)
    ELSE decimal_cut(digits, scale,
                     CHOOSE i \in set :
                         \A j \in (i + 1)..Len(digits) : digits[j] = 0)

\* digits / 10^scale as an f32
decimal_of(digits, scale) ==
    decimal_set(digits, scale, {i \in 1..Len(digits) : digits[i] # 0})

\* Number ::= ( Digit+ | Digit+ '.' Digit* | Digit* '.' Digit+ ), times ten
\* to the exp
mantissa_of(q, dots, digits, exp) ==
    IF Cardinality(dots) > 1 \/ digits = <<>> \/ ~AsciiDigits(digits)
    THEN [ok |-> FALSE]
    ELSE [ok |-> TRUE,
          val |-> decimal_of(DigitValues(digits),
                             (IF dots = {} THEN 0
                              ELSE Len(q) - (CHOOSE i \in dots : TRUE)) - exp)]

number_of(q, exp) ==
    IF exp.ok
    THEN mantissa_of(q, {i \in 1..Len(q) : q[i] = 46},
                     SelectSeq(q, LAMBDA c : c # 46), exp.val)
    ELSE exp

\* Number Exp?, cut at the first 'e' or 'E' (es holds the places of all)
number_exp_of(body, es) ==
    IF es = {} THEN number_of(body, [ok |-> TRUE, val |-> 0])
    ELSE number_of(SubSeq(body, 1, (CHOOSE i \in es : \A j \in es : i <= j) - 1),
                   exponent_of(SubSeq(body,
                                      (CHOOSE i \in es : \A j \in es : i <= j) + 1,
                                      Len(body))))

\* ( 'inf' | 'infinity' | 'nan' | Number ) in either case
unsigned_of(body, word) ==
    IF word \in {<<105, 110, 102>>, <<105, 110, 102, 105, 110, 105, 116, 121>>}
    THEN [ok |-> TRUE, val |-> Infinity(FALSE)]
    ELSE IF word = <<110, 97, 110>> THEN [ok |-> TRUE, val |-> NaN]
    ELSE number_exp_of(body, {i \in 1..Len(word) : word[i] = 101})

negated(r) == IF r.ok THEN [ok |-> TRUE, val |-> NumNeg(r.val)] ELSE r

\* f32::from_str on the text of a slice.  The standard library accepts
\*   Float  ::= Sign? ( 'inf' | 'infinity' | 'nan' | Number )
\*   Number ::= ( Digit+ | Digit+ '.' Digit* | Digit* '.' Digit+ ) Exp?
\*   Exp    ::= 'e' Sign? Digit+
\* with the letters in either case, and returns the nearest f32.  A token
\* of the Number state is numeric characters and dots, but the slice is
\* taken by byte offsets and can hold other characters
from_str(chars) ==
    IF chars # <<>> /\ chars[1] = 45
    THEN negated(unsigned_of(Tail(chars), LowerCase(Tail(chars))))
    ELSE IF chars # <<>> /\ chars[1] = 43
    THEN unsigned_of(Tail(chars), LowerCase(Tail(chars)))
    ELSE unsigned_of(chars, LowerCase(chars))

\* What one turn of the scanning loop yields
Continue(state, atoms) == [ok |-> TRUE, state |-> state, atoms |-> atoms]

Fail(err) == [ok |-> FALSE, err |-> err]

\* match arms of ReadingState::None
none_step(c, pos, atoms) ==
    IF is_alphabetic(c) \/ (is_ascii_punctuation(c) /\ c # 40 /\ c # 41)
    THEN Continue(StSymbol(pos), atoms)
    ELSE IF is_numeric(c) \/ c = 46 THEN Continue(StNumber(pos), atoms)
    ELSE IF c = 40 THEN Continue(StList(pos, 0, FALSE), atoms)
    ELSE IF c = 34 THEN Continue(StString(pos), atoms)
    ELSE IF is_whitespace(c) THEN Continue(StNone, atoms)
    ELSE Fail(InvalidCharacter(pos))

\* atoms.push(atom) in the loop, for an atom that could be made
pushed(atoms, made) ==
    IF made.ok THEN Continue(StNone, Append(atoms, made.atom)) ELSE made

\* Atom::Symbol(&input[start..pos])
symbol_atom(slice) ==
    IF slice.ok THEN [ok |-> TRUE, atom |-> Symbol(Join(slice.chars))]
    ELSE Panicked

\* Atom::String(&input[(start + 1)..pos])
string_atom(slice) ==
    IF slice.ok THEN [ok |-> TRUE, atom |-> String(Join(slice.chars))]
    ELSE Panicked

\* match f32::from_str(..) { Ok(v) => v, Err(e) => return Err(NumberError(e, pos)) }
number_value(val, pos) ==
    IF val.ok THEN [ok |-> TRUE, atom |-> val.val] ELSE Fail(NumberError(pos))

\* Atom::Number(val) of f32::from_str(&input[start..pos])
number_atom(slice, pos) ==
    IF slice.ok THEN number_value(from_str(slice.chars), pos) ELSE Panicked

\* match arms of ReadingState::Symbol
symbol_step(input, state, c, pos, atoms) ==
    IF is_alphanumeric(c) \/ (is_ascii_punctuation(c) /\ c # 40 /\ c # 41)
    THEN Continue(state, atoms)
    ELSE IF is_whitespace(c)
    THEN pushed(atoms, symbol_atom(Slice(input, state.start, pos)))
    ELSE Fail(InvalidCharacter(pos))

\* match arms of ReadingState::Number
number_step(input, state, c, pos, atoms) ==
    IF is_numeric(c) \/ c = 46 THEN Continue(state, atoms)
    ELSE IF is_whitespace(c)
    THEN pushed(atoms, number_atom(Slice(input, state.start, pos), pos))
    ELSE Fail(InvalidCharacter(pos))

\* match arms of ReadingState::String
string_step(input, state, c, pos, atoms) ==
    IF c = 34
    THEN pushed(atoms, string_atom(Slice(input, state.start + 1, pos)))
    ELSE Continue(state, atoms)

RECURSIVE parse(_)
\* match parse(..) { Ok(list) => list, Err(e) => return Err(e) }
list_value(list) ==
    IF list.ok THEN [ok |-> TRUE, atom |-> List(list.atoms)] ELSE list

\* Atom::List(list) of parse(&input[(start + 1)..pos])
list_atom(slice) ==
    IF slice.ok THEN list_value(parse(slice.chars)) ELSE Panicked

\* match arms of ReadingState::List
list_step(input, state, c, pos, atoms) ==
    IF ~state.in_string /\ state.depth = 0 /\ c = 41
    THEN pushed(atoms, list_atom(Slice(input, state.start + 1, pos)))
    ELSE IF ~state.in_string /\ c = 40
    THEN Continue(StList(state.start, state.depth + 1, state.in_string), atoms)
    ELSE IF ~state.in_string /\ c = 41
    THEN Continue(StList(state.start, state.depth - 1, state.in_string), atoms)
    ELSE IF c = 34
    THEN Continue(StList(state.start, state.depth, ~state.in_string), atoms)
    ELSE Continue(state, atoms)

\* One turn of `for (pos, c) in iterator`: pos counts characters
scan_step(input, state, pos, atoms) ==
    CASE state.kind = "None" -> none_step(input[pos + 1], pos, atoms)
      [] state.kind = "Symbol" ->
            symbol_step(input, state, input[pos + 1], pos, atoms)
      [] state.kind = "Number" ->
            number_step(input, state, input[pos + 1], pos, atoms)
      [] state.kind = "String" ->
            string_step(input, state, input[pos + 1], pos, atoms)
      [] state.kind = "List" ->
            list_step(input, state, input[pos + 1], pos, atoms)

\* atoms.push(atom) after the loop, for an atom that could be made
pushed_last(atoms, made) ==
    IF made.ok THEN [ok |-> TRUE, atoms |-> Append(atoms, made.atom)] ELSE made

\* After the loop: "Parse the latest symbol, if possible."
parse_end(input, state, atoms) ==
    CASE state.kind = "Symbol" ->
            pushed_last(atoms,
                        symbol_atom(Slice(input, state.start, ByteLen(input))))
      [] state.kind = "Number" ->
            pushed_last(atoms,
                        number_atom(Slice(input, state.start, ByteLen(input)),
                                    ByteLen(input)))
      [] state.kind = "String" -> Fail(IncompleteString)
      [] state.kind = "List" -> Fail(IncompleteList)
      [] state.kind = "None" -> [ok |-> TRUE, atoms |-> atoms]

RECURSIVE parse_loop(_, _, _, _)
\* The turns lo .. hi - 1 of `for (pos, c) in iterator`, taken one after the
\* other from the outcome r of the turns before them: the first half of
\* the turns, then the second half.  `state = match state { .. }` is one
\* turn, and an early return ends the loop
parse_loop(input, r, lo, hi) ==
    IF ~r.ok \/ lo = hi THEN r
    ELSE IF hi = lo + 1 THEN scan_step(input, r.state, lo, r.atoms)
    ELSE parse_loop(input, parse_loop(input, r, lo, (lo + hi) \div 2),
                    (lo + hi) \div 2, hi)

\* What follows the loop when no turn has returned early
parse_last(input, r) ==
    IF r.ok THEN parse_end(input, r.state, r.atoms) ELSE r

parse(input) ==
    parse_last(input, parse_loop(input, Continue(StNone, <<>>), 0, Len(input)))

(***************************************************************************)
(* vm.rs and primitives.rs.  The symbol table of the VM is a function from *)
(* names to atoms.  Every operation that is handed `&mut NlispVm` takes    *)
(* the table and yields, with its value, the table it leaves behind.       *)
(***************************************************************************)
\* The literal 3.14159265 as an f32
Pi == DecimalToF32(<<3, 1, 4, 1, 5, 9, 2, 6, 5>>, 8)

NativeNames ==
    {"print", "printd", "if", "lambda", "quote", "type", "global", "resolve",
     "eval", "+", "*", "=", "neg"}

\* NlispVm::new
NewSymbolMap ==
    [name \in {"pi", "true", "false"} \cup NativeNames |->
        CASE name = "pi" -> Pi
          [] name = "true" -> Bool(TRUE)
          [] name = "false" -> Bool(FALSE)
          [] OTHER -> NativeFunction(name)]

\* NlispVm::add_symbol
add_symbol(vm, name, value) ==
    [s \in DOMAIN vm \cup {name} |-> IF s = name THEN value ELSE vm[s]]

\* NlispVm::resolve(symbol).is_some()
is_bound(vm, symbol) == symbol \in DOMAIN vm

\* NlispVm::resolve(symbol).unwrap_or(Symbol(symbol))
resolve_or_symbol(vm, symbol) ==
    IF is_bound(vm, symbol) THEN vm[symbol] ELSE Symbol(symbol)

\* A value (a Result, or a List) with the symbol table left behind
Out(res, vm) == [res |-> res, vm |-> vm]

Resolved(l, vm) == [l |-> l, vm |-> vm]

\* Atom::get_type_str
get_type_str(atom) ==
    IF atom.t = "Error" THEN "Error:" \o atom.err ELSE atom.t

RECURSIVE resolve_upvalues(_, _, _)
resolve_upvalues(context, list, recursively) ==
    [k \in 1..Len(list) |->
        IF list[k].t = "List" /\ recursively
        THEN List(resolve_upvalues(context, list[k].l, TRUE))
        ELSE closure_resolve(context, list[k])]

\* bind_upvalues with the slots that get no parameter reset to Nil
bind_upvalues_reset(closure, param) ==
    IF closure.upvalues.some
    THEN [upvalues |->
              SomeUpvalues([i \in 1..Len(closure.upvalues.v) |->
                               IF i <= Len(param) THEN param[i] ELSE Nil]),
          code |-> closure.code]
    ELSE closure

\* The closure evaluate runs: the callee with its first slots overwritten by
\* the raw parameters
bind_upvalues(closure, param) ==
    IF closure.upvalues.some
    THEN LET slots == Len(closure.upvalues.v)
             bound == IF Len(param) < slots THEN Len(param) ELSE slots
         IN  [upvalues |->
                  SomeUpvalues(SubSeq(param, 1, bound)
                               \o SubSeq(closure.upvalues.v, bound + 1, slots)),
              code |-> closure.code]
    ELSE closure

RECURSIVE evaluate(_, _, _)
RECURSIVE resolve_classic(_, _, _, _)
RECURSIVE evaluate_atom(_, _, _)
RECURSIVE call_native(_, _, _, _)

\* call_closure binding in place: the slots of the stored closure are
\* overwritten, as they would be were the stored atom not cloned
call_closure_in_place(vm, closure, param) ==
    LET bound == bind_upvalues(closure, param)
        aliased == [s \in DOMAIN vm |->
                       IF vm[s] = ClosureAtom(closure) THEN ClosureAtom(bound)
                       ELSE vm[s]]
    IN  evaluate(aliased, bound, bound.code)

\* The Atom::Closure arm of evaluate.  The closure is the one of the cloned
\* list (resolve hands out a clone of the stored atom), so the binding is
\* seen by the body alone and the symbol table keeps the stored closure.
call_closure(vm, closure, param) ==
    LET bound == bind_upvalues(closure, param)
    IN  evaluate(vm, bound, bound.code)

\* The closure of resolve_classic's map, on one atom
resolve_classic_atom(vm, context, atom, evaluate_each) ==
    IF atom.t = "List" /\ evaluate_each
    THEN LET list_resolved == resolve_classic(vm, context, atom.l, TRUE)
             r == evaluate(list_resolved.vm, context, list_resolved.l)
         IN  [atom |-> IF r.res.ok THEN r.res.val ELSE Error(r.res.err),
              vm |-> r.vm]
    ELSE IF atom.t = "Upvalue"
    THEN [atom |-> resolve_ref(context, atom), vm |-> vm]
    ELSE IF atom.t = "Symbol"
    THEN [atom |-> resolve_or_symbol(vm, atom.s), vm |-> vm]
    ELSE [atom |-> atom, vm |-> vm]

resolve_classic(vm, context, param, evaluate_each) ==
    IF param = <<>> THEN Resolved(<<>>, vm)
    ELSE LET first == resolve_classic_atom(vm, context, Head(param), evaluate_each)
             rest == resolve_classic(first.vm, context, Tail(param), evaluate_each)
         IN  Resolved(<<first.atom>> \o rest.l, rest.vm)

evaluate_atom(vm, context, atom) ==
    IF atom.t = "List"
    THEN LET list_resolved == resolve_classic(vm, context, atom.l, FALSE)
         IN  evaluate(list_resolved.vm, context, list_resolved.l)
    ELSE IF atom.t = "Symbol" THEN Out(Ok(resolve_or_symbol(vm, atom.s)), vm)
    ELSE IF atom.t = "Upvalue" THEN Out(Ok(resolve_ref(context, atom)), vm)
    ELSE Out(Ok(atom), vm)

if_function(vm, context, param) ==
    IF Len(param) < 1 THEN Out(Err("InvalidUsage"), vm)
    ELSE LET cond == evaluate_atom(vm, context, param[1])
         IN  IF ~cond.res.ok THEN cond
             ELSE LET cond_result ==
                          ~(cond.res.val = Bool(FALSE) \/ cond.res.val = Nil)
                      branch == IF cond_result THEN 2 ELSE 3
                  IN  IF branch <= Len(param)
                      THEN evaluate_atom(cond.vm, context, param[branch])
                      ELSE Out(Ok(Nil), cond.vm)

printd_function(vm, context, param) == Out(Ok(Nil), vm)

print_function(vm, context, param) ==
    Out(Ok(Nil), resolve_classic(vm, context, param, TRUE).vm)

quote_function(vm, context, param) == Out(Ok(List(param)), vm)

lambda_function(vm, context, param0) ==
    LET resolved == resolve_classic(vm, context, param0, FALSE)
        param == resolved.l
    IN  IF Len(param) < 1 \/ param[1].t # "List"
        THEN Out(Err("InvalidUsage"), resolved.vm)
        ELSE IF Len(param) < 2 \/ param[2].t # "List"
        THEN Out(Err("InvalidUsage"), resolved.vm)
        ELSE LET upvalues == param[1].l
                 source == param[2].l
             IN  IF \E i \in 1..Len(upvalues) : upvalues[i].t # "Symbol"
                 THEN Out(Err("InvalidUsage"), resolved.vm)
                 ELSE LET upvalue_symbols ==
                              [i \in 1..Len(upvalues) |-> upvalues[i].s]
                      IN  Out(Ok(ClosureAtom(
                                  compile(resolve_upvalues(context, source, TRUE),
                                          upvalue_symbols))),
                              resolved.vm)

\* The map of eval_function: each list evaluated in turn, an error made an
\* Error atom
RECURSIVE eval_each(_, _, _)
eval_each(vm, context, param) ==
    IF param = <<>> THEN Resolved(<<>>, vm)
    ELSE LET r == evaluate(vm, context, Head(param).l)
             rest == eval_each(r.vm, context, Tail(param))
         IN  Resolved(<<IF r.res.ok THEN r.res.val ELSE Error(r.res.err)>>
                          \o rest.l,
                      rest.vm)

\* eval_function with the error of an element returned, as `?` would
eval_function_propagating(vm, context, param) ==
    IF \E i \in 1..Len(param) : param[i].t # "List"
    THEN Out(Err("InvalidUsage"), vm)
    ELSE LET r == eval_each(vm, context, param)
         IN  IF \E i \in 1..Len(r.l) : r.l[i].t = "Error"
             THEN Out(Err(r.l[CHOOSE i \in 1..Len(r.l) : r.l[i].t = "Error"].err),
                      r.vm)
             ELSE Out(Ok(List(r.l)), r.vm)

eval_function(vm, context, param) ==
    IF \E i \in 1..Len(param) : param[i].t # "List"
    THEN Out(Err("InvalidUsage"), vm)
    ELSE LET r == eval_each(vm, context, param)
         IN  Out(Ok(List(r.l)), r.vm)

type_function(vm, context, param) ==
    LET r == resolve_classic(vm, context, param, FALSE)
    IN  Out(Ok(List([i \in 1..Len(r.l) |-> String(get_type_str(r.l[i]))])), r.vm)

\* The symbol global_function binds: [some, s]
global_symbol(context, param) ==
    IF Len(param) >= 1 /\ param[1].t = "Symbol"
    THEN [some |-> TRUE, s |-> param[1].s]
    ELSE IF Len(param) >= 1 /\ param[1].t = "Upvalue"
            /\ resolve_ref(context, param[1]).t = "Symbol"
    THEN [some |-> TRUE, s |-> resolve_ref(context, param[1]).s]
    ELSE [some |-> FALSE]

\* global_function binding the value expression as written, unevaluated
global_function_raw(vm, context, param) ==
    LET symbol == global_symbol(context, param)
    IN  IF ~symbol.some THEN Out(Err("NotASymbol"), vm)
        ELSE IF Len(param) < 2 THEN Out(Err("InvalidUsage"), vm)
        ELSE Out(Ok(Nil), add_symbol(vm, symbol.s, param[2]))

global_function(vm, context, param) ==
    LET symbol == global_symbol(context, param)
    IN  IF ~symbol.some THEN Out(Err("NotASymbol"), vm)
        ELSE IF Len(param) < 2 THEN Out(Err("InvalidUsage"), vm)
        ELSE LET result == evaluate_atom(vm, context, param[2])
             IN  IF result.res.ok
                 THEN Out(Ok(Nil), add_symbol(result.vm, symbol.s, result.res.val))
                 ELSE result

resolve_function(vm, context, param) ==
    LET r == resolve_classic(vm, context, param, FALSE)
    IN  Out(Ok(List(r.l)), r.vm)

neg_function(vm, context, param) ==
    LET r == evaluate_atom(vm, context, IF Len(param) >= 1 THEN param[1] ELSE Nil)
    IN  IF r.res.ok /\ r.res.val.t = "Number"
        THEN Out(Ok(NumNeg(r.res.val)), r.vm)
        ELSE r

\* |atom| match atom { Atom::Number(n) => n, _ => 0f32 }
number_or_zero(atom) == IF atom.t = "Number" THEN atom ELSE Zero(FALSE)

\* .fold(0f32, |a, b| a + b)
RECURSIVE fold_sum(_, _)
fold_sum(a, l) ==
    IF l = <<>> THEN a ELSE fold_sum(NumAdd(a, number_or_zero(Head(l))), Tail(l))

sum_function(vm, context, param) ==
    LET r == resolve_classic(vm, context, param, TRUE)
    IN  Out(Ok(fold_sum(Zero(FALSE), r.l)), r.vm)

\* The maps and the fold of product_function over the resolved list: a List
\* left by the resolution is evaluated (an error made Nil), then the fold
\* .fold(0f32, |a, b| a * b)
RECURSIVE fold_product(_, _, _, _)
fold_product(vm, context, a, l) ==
    IF l = <<>> THEN Out(Ok(a), vm)
    ELSE LET atom == Head(l)
             r == IF atom.t = "List" THEN evaluate(vm, context, atom.l)
                  ELSE Out(Ok(atom), vm)
             value == IF r.res.ok THEN r.res.val ELSE Nil
         IN  fold_product(r.vm, context, NumMul(a, number_or_zero(value)), Tail(l))

product_function(vm, context, param) ==
    LET r == resolve_classic(vm, context, param, TRUE)
    IN  fold_product(r.vm, context, Zero(FALSE), r.l)

eq_function(vm, context, param0) ==
    LET r == resolve_classic(vm, context, param0, TRUE)
        param == r.l
    IN  IF param = <<>> THEN Out(Ok(Bool(TRUE)), r.vm)
        ELSE Out(Ok(Bool(\A i \in 2..Len(param) : AtomEq(param[1], param[i]))),
                 r.vm)

\* func(self, context, param), for the native function of that name
call_native(func, vm, context, param) ==
    CASE func = "print" -> print_function(vm, context, param)
      [] func = "printd" -> printd_function(vm, context, param)
      [] func = "if" -> if_function(vm, context, param)
      [] func = "lambda" -> lambda_function(vm, context, param)
      [] func = "quote" -> quote_function(vm, context, param)
      [] func = "type" -> type_function(vm, context, param)
      [] func = "global" -> global_function(vm, context, param)
      [] func = "resolve" -> resolve_function(vm, context, param)
      [] func = "eval" -> eval_function(vm, context, param)
      [] func = "+" -> sum_function(vm, context, param)
      [] func = "*" -> product_function(vm, context, param)
      [] func = "=" -> eq_function(vm, context, param)
      [] func = "neg" -> neg_function(vm, context, param)

\* evaluate with the parameters of a closure call resolved through the
\* symbol table before they are bound
evaluate_resolving(vm, context, list) ==
    IF list = <<>> THEN Out(Err("NonEvaluable"), vm)
    ELSE LET param == Tail(list)
             first == IF Head(list).t = "Symbol" /\ is_bound(vm, Head(list).s)
                      THEN vm[Head(list).s]
                      ELSE Head(list)
         IN  CASE first.t = "Closure" ->
                      call_closure(vm, first.c,
                                   [i \in 1..Len(param) |->
                                       IF param[i].t = "Symbol"
                                       THEN resolve_or_symbol(vm, param[i].s)
                                       ELSE param[i]])
               [] first.t = "NativeFunction" ->
                      call_native(first.f, vm, context, param)
               [] OTHER -> Out(Err("NotAFunction"), vm)

\* NlispVm::evaluate
evaluate(vm, context, list) ==
    IF list = <<>> THEN Out(Err("NonEvaluable"), vm)
    ELSE LET param == Tail(list)
             first == IF Head(list).t = "Symbol" /\ is_bound(vm, Head(list).s)
                      THEN vm[Head(list).s]
                      ELSE Head(list)
         IN  CASE first.t = "Closure" -> call_closure(vm, first.c, param)
               [] first.t = "NativeFunction" ->
                      call_native(first.f, vm, context, param)
               [] OTHER -> Out(Err("NotAFunction"), vm)

(***************************************************************************)
(* The state.  main.rs parses a text into the list of its top-level forms, *)
(* builds a VM and an empty root closure, and evaluates the forms in order.*)
(* The scanner's variables are those of one run of parse's loop.           *)
(***************************************************************************)
VARIABLES
    input,          \* parse: the text
    pos,            \* parse: the position of the next character
    state,          \* parse: the ReadingState
    atoms,          \* parse: the atoms pushed so far
    parsed,         \* parse: what it returned, once it has
    program,        \* main: the list of top-level forms
    pc,             \* main: how many forms have been processed
    symbol_map,     \* vm.symbol_map
    root_context,   \* main: root_context
    history         \* one record per form processed: the form, the symbol
                    \* table before and after, and the Result

vars ==
    <<input, pos, state, atoms, parsed, program, pc, symbol_map, root_context,
      history>>

parser_vars == <<input, pos, state, atoms, parsed>>

vm_vars == <<program, pc, symbol_map, root_context, history>>

Pending == [pending |-> TRUE]

\* Short names for writing forms
S(name) == Symbol(name)

N(n) == Number(n)

L(l) == List(l)

(***************************************************************************)
(* The sample program of main.rs                                           *)
(***************************************************************************)
DefFn ==
    L(<<S("global"), S("fn"),
        L(<<S("lambda"), L(<<S("name"), S("args"), S("definition")>>),
            L(<<S("global"), S("name"),
                L(<<S("lambda"), S("args"), S("definition")>>)>>)>>)>>)

DefMinus ==
    L(<<S("fn"), S("-"), L(<<S("a"), S("b")>>),
        L(<<S("+"), S("a"), L(<<S("neg"), S("b")>>)>>)>>)

DefFib ==
    L(<<S("fn"), S("fib"), L(<<S("n"), S("fib")>>),
        L(<<S("if"), L(<<S("="), S("n"), N(0)>>), N(0),
            L(<<S("if"), L(<<S("="), S("n"), N(1)>>), N(1),
                L(<<S("+"),
                    L(<<S("fib"), L(<<S("-"), S("n"), N(1)>>)>>),
                    L(<<S("fib"), L(<<S("-"), S("n"), N(2)>>)>>)>>)>>)>>)>>)

CallFib(n) == L(<<S("fib"), N(n), S("fib")>>)

\* The largest n of (fib n fib), and the largest operand of (- a b)
MaxFib == 4

MaxOperand == 3

(***************************************************************************)
(* Actions                                                                 *)
(***************************************************************************)
\* The scanner at rest (the specifications of the evaluator)
ParserIdle ==
    /\ input = <<>>
    /\ pos = 0
    /\ state = StNone
    /\ atoms = <<>>
    /\ parsed = Pending

\* The evaluator at rest (the specification of the parser)
VmIdle ==
    /\ program = <<>>
    /\ pc = 0
    /\ symbol_map = NewSymbolMap
    /\ root_context = compile_thin(<<>>)
    /\ history = <<>>

\* main, up to the loop over the forms of `program`
InitMain(programs) ==
    /\ ParserIdle
    /\ program \in programs
    /\ pc = 0
    /\ symbol_map = NewSymbolMap
    /\ root_context = compile_thin(<<>>)
    /\ history = <<>>

\* One turn of main's list.iter().for_each: a List is evaluated in the root
\* context, any other atom is printed as it is
MainStep ==
    /\ pc < Len(program)
    /\ LET atom == program[pc + 1]
           r == IF atom.t = "List" THEN evaluate(symbol_map, root_context, atom.l)
                ELSE Out(Ok(atom), symbol_map)
       IN  /\ symbol_map' = r.vm
           /\ history' = Append(history,
                                [form |-> atom, pre |-> symbol_map,
                                 post |-> r.vm, res |-> r.res])
    /\ pc' = pc + 1
    /\ UNCHANGED <<program, root_context>>
    /\ UNCHANGED parser_vars

\* One turn of parse's loop over the characters
\* What a turn of the loop leaves: the next state, or the early return
Scanned(r) ==
    IF r.ok
    THEN /\ state' = r.state
         /\ atoms' = r.atoms
         /\ pos' = pos + 1
         /\ parsed' = parsed
    ELSE /\ parsed' = r
         /\ UNCHANGED <<state, atoms, pos>>

ScanChar ==
    /\ parsed = Pending
    /\ pos < Len(input)
    /\ Scanned(scan_step(input, state, pos, atoms))
    /\ UNCHANGED input
    /\ UNCHANGED vm_vars

\* The end of parse, after the loop
ParseEnd ==
    /\ parsed = Pending
    /\ pos = Len(input)
    /\ parsed' = parse_end(input, state, atoms)
    /\ UNCHANGED <<input, state, atoms, pos>>
    /\ UNCHANGED vm_vars

NextMain == MainStep

NextParse == ScanChar \/ ParseEnd

(***************************************************************************)
(* The places a form can be evaluated in, each a program to run           *)
(***************************************************************************)
\* as a top-level form
AtTop(f) == <<f>>

\* as the branch of another `if`
AsBranch(f) == <<L(<<S("if"), S("true"), f>>)>>

\* as the value expression of `global`
AsGlobalValue(f) == <<L(<<S("global"), S("r"), f>>)>>

\* as the body of a closure, which is then called
AsClosureBody(f) ==
    <<L(<<S("global"), S("k"), L(<<S("lambda"), L(<<>>), f>>)>>), L(<<S("k")>>)>>

\* as a list argument of the native function `op`
AsArgument(op, f) == <<L(<<S(op), f>>)>>

\* The forms that probe the side effects of an evaluation: each binds a
\* name of its own
BindA == L(<<S("global"), S("a"), N(1)>>)

BindB == L(<<S("global"), S("b"), N(2)>>)

(***************************************************************************)
(* `if` forms, in every place                                              *)
(***************************************************************************)
Conditions ==
    {S("true"), S("false"), S("nil"), N(0), L(<<S("neg")>>),
     L(<<S("="), N(1), N(1)>>), L(<<S("="), N(1), N(2)>>)}

IfForms ==
    {L(<<S("if"), c, BindA, BindB>>) : c \in Conditions}
    \cup {L(<<S("if"), c, N(1), N(2)>>) : c \in Conditions}
    \cup {L(<<S("if"), c, N(1)>>) : c \in Conditions}

StrictNatives == {"+", "*", "=", "print"}

IfPrograms ==
    UNION {{AtTop(f), AsBranch(f), AsGlobalValue(f), AsClosureBody(f)}
           \cup {AsArgument(op, f) : op \in StrictNatives} : f \in IfForms}

InitIf == InitMain(IfPrograms)

SpecIf == InitIf /\ [][NextMain]_vars

\* The program has run to its end
Done == pc = Len(program)

\* The last record of the history: the outcome of the program's last form
Last == history[Len(history)]

Bound(vm, name) == name \in DOMAIN vm

\* C1: wherever an `if` form is evaluated (top level, closure body, branch
\* of another `if`, value of `global`, argument of + * = print), only the
\* condition and the selected branch are evaluated: of the two branches
\* (global a 1) and (global b 2), at most one has bound its name when the
\* program is done.
C1_OnlySelectedBranch ==
    (Done /\ \E c \in Conditions :
                 LET f == L(<<S("if"), c, BindA, BindB>>)
                 IN  program \in {AtTop(f), AsBranch(f), AsGlobalValue(f),
                                  AsClosureBody(f)}
                                 \cup {AsArgument(op, f) : op \in StrictNatives})
    => ~(Bound(symbol_map, "a") /\ Bound(symbol_map, "b"))

\* The part of C1 the code keeps: at the top level, in a closure body, as
\* the branch of an `if` and as the value of `global`, one branch runs
C1_LazyPlaces ==
    (Done /\ \E c \in Conditions :
                 LET f == L(<<S("if"), c, BindA, BindB>>)
                 IN  program \in {AtTop(f), AsBranch(f), AsGlobalValue(f),
                                  AsClosureBody(f)})
    => (Bound(symbol_map, "a") # Bound(symbol_map, "b"))

\* C7: on a fresh VM with an empty root closure, (if false 1 2) yields
\* Number(2) and (if nil 1) yields Nil.
C7_IfFalseAndIfNil ==
    /\ (Done /\ program = AtTop(L(<<S("if"), S("false"), N(1), N(2)>>)))
           => Last.res = Ok(N(2))
    /\ (Done /\ program = AtTop(L(<<S("if"), S("nil"), N(1)>>)))
           => Last.res = Ok(Nil)

\* The part of C7 the code keeps: a condition that evaluates to Bool(false)
\* or to Nil selects the third parameter, and a missing one yields Nil
C7_FalsyConditions ==
    /\ (Done /\ program = AtTop(L(<<S("if"), S("false"), N(1), N(2)>>)))
           => Last.res = Ok(N(2))
    /\ (Done /\ program = AtTop(L(<<S("if"), L(<<S("neg")>>), N(1), N(2)>>)))
           => Last.res = Ok(N(2))
    /\ (Done /\ program = AtTop(L(<<S("if"), L(<<S("neg")>>), N(1)>>)))
           => Last.res = Ok(Nil)
    /\ (Done /\ program = AtTop(L(<<S("if"), S("false"), N(1)>>)))
           => Last.res = Ok(Nil)

(***************************************************************************)
(* Errors: sibling expressions of + * =, and the parameters of `eval`      *)
(***************************************************************************)
\* Calls that fail, each with the error it fails with
FailingCalls ==
    {L(<<S("nofn")>>), L(<<>>), L(<<S("global"), N(5), N(1)>>), L(<<S("if")>>)}

ErrorOf(call) ==
    CASE call = L(<<S("nofn")>>) -> "NotAFunction"
      [] call = L(<<>>) -> "NonEvaluable"
      [] call = L(<<S("global"), N(5), N(1)>>) -> "NotASymbol"
      [] call = L(<<S("if")>>) -> "InvalidUsage"

\* (+ a 1): 2 once (global a 1) has run, 1 before (the unbound symbol a
\* counts as 0)
ReadA == L(<<S("+"), S("a"), N(1)>>)

SucceedingCalls == {BindA, BindB, ReadA, L(<<S("quote"), S("q")>>)}

EvalParams == FailingCalls \cup SucceedingCalls \cup {N(5), S("a")}

MaxEvalParams == 2

RECURSIVE SeqsUpTo(_, _)
\* The sequences over `set` of length at most n
SeqsUpTo(set, n) ==
    IF n = 0 THEN {<<>>}
    ELSE LET shorter == SeqsUpTo(set, n - 1)
         IN  shorter \cup {Append(q, e) : q \in shorter, e \in set}

SiblingNatives == {"+", "*", "="}

ErrorPrograms ==
    {<<L(<<S(op), e1, e2>>)>> :
         op \in SiblingNatives, e1 \in FailingCalls \cup SucceedingCalls,
         e2 \in {BindB, ReadA}}
    \cup {<<e>> : e \in EvalParams}
    \cup {<<L(<<S("eval")>> \o q)>> : q \in SeqsUpTo(EvalParams, MaxEvalParams)}

InitError == InitMain(ErrorPrograms)

SpecError == InitError /\ [][NextMain]_vars

\* Each failing call, evaluated alone, fails with its error
FailingCallsFail ==
    (Done /\ Len(program) = 1 /\ program[1] \in FailingCalls)
    => (Last.res = Err(ErrorOf(program[1])) /\ Last.post = Last.pre)

\* C2: when e1 of (+ e1 e2), (* e1 e2) or (= e1 e2) fails with an error, e2
\* is not evaluated (its (global b 2) does not reach the symbol table) and
\* the call returns that error.
C2_ErrorsShortCircuit ==
    \A op \in SiblingNatives, e1 \in FailingCalls :
        (Done /\ program = <<L(<<S(op), e1, BindB>>)>>)
        => (Last.res = Err(ErrorOf(e1)) /\ ~Bound(symbol_map, "b"))

\* What the code does instead: the error becomes an Error atom among the
\* resolved parameters, e2 is evaluated and the call succeeds
C2_ErrorsAreSwallowed ==
    \A op \in SiblingNatives, e1 \in FailingCalls :
        (Done /\ program = <<L(<<S(op), e1, BindB>>)>>)
        => (Last.res.ok /\ Bound(symbol_map, "b"))

\* `eval` applied to the parameters q: the i-th element of its result, given
\* that the VM was fresh
EvalElement(q, i) ==
    IF q[i] \in FailingCalls THEN Error(ErrorOf(q[i]))
    ELSE IF q[i] = ReadA
    THEN IF \E j \in 1..(i - 1) : q[j] = BindA THEN N(2) ELSE N(1)
    ELSE IF q[i] = L(<<S("quote"), S("q")>>) THEN L(<<S("q")>>)
    ELSE Nil

\* C3: with every parameter a List, eval returns Ok of a List with one
\* element per parameter, the i-th the value of parameter i evaluated as a
\* call in its turn, or Error(e) when that failed with e, and goes on after
\* a failure; with a parameter that is not a List it returns InvalidUsage
\* and evaluates nothing.
C3_EvalRecovers ==
    \A q \in SeqsUpTo(EvalParams, MaxEvalParams) :
        (Done /\ program = <<L(<<S("eval")>> \o q)>>)
        => IF \A i \in 1..Len(q) : q[i].t = "List"
           THEN /\ Last.res.ok
                /\ Last.res.val.t = "List"
                /\ Len(Last.res.val.l) = Len(q)
                /\ \A i \in 1..Len(q) : Last.res.val.l[i] = EvalElement(q, i)
                /\ Bound(symbol_map, "a") = (\E i \in 1..Len(q) : q[i] = BindA)
                /\ Bound(symbol_map, "b") = (\E i \in 1..Len(q) : q[i] = BindB)
           ELSE /\ Last.res = Err("InvalidUsage")
                /\ symbol_map = NewSymbolMap

\* eval has gone on after a failed element: (eval (nofn) (global a 1))
C3_Witness ==
    /\ Done
    /\ program = <<L(<<S("eval"), L(<<S("nofn")>>), BindA>>)>>
    /\ Last.res = Ok(L(<<Error("NotAFunction"), Nil>>))
    /\ symbol_map["a"] = N(1)

(***************************************************************************)
(* Calls of stored closures, each call made twice in a row                 *)
(***************************************************************************)
\* (global g (lambda (a b) (+ a b)))
DefG ==
    L(<<S("global"), S("g"),
        L(<<S("lambda"), L(<<S("a"), S("b")>>), L(<<S("+"), S("a"), S("b")>>)>>)>>)

\* (global t (lambda () (if (= flag true) 1 (global flag true)))): a closure
\* whose body binds another global, which it reads
DefToggle ==
    L(<<S("global"), S("t"),
        L(<<S("lambda"), L(<<>>),
            L(<<S("if"), L(<<S("="), S("flag"), S("true")>>), N(1),
                L(<<S("global"), S("flag"), S("true")>>)>>)>>)>>)

\* (global k (lambda (v) (global k v))): a closure whose body rebinds its
\* own name
DefRebind ==
    L(<<S("global"), S("k"),
        L(<<S("lambda"), L(<<S("v")>>), L(<<S("global"), S("k"), S("v")>>)>>)>>)

MaxCallArgs == 2

CallsOfG == {L(<<S("g")>> \o q) : q \in SeqsUpTo({N(1), N(2)}, MaxCallArgs)}

CallPrograms ==
    {<<DefG, c1, c2>> : c1 \in CallsOfG, c2 \in CallsOfG}
    \cup {<<DefFn, DefMinus, L(<<S("-"), N(a), N(b)>>), L(<<S("-"), N(a), N(b)>>)>> :
            a \in 0..MaxOperand, b \in 0..MaxOperand}
    \cup {<<DefFn, DefMinus, DefFib, CallFib(n), CallFib(n)>> : n \in 0..2}
    \cup {<<DefToggle, L(<<S("t")>>), L(<<S("t")>>)>>,
          <<DefRebind, L(<<S("k"), N(5)>>), L(<<S("k"), N(5)>>)>>,
          <<DefFn, L(<<S("fn"), S("fn"), L(<<S("x")>>), L(<<S("+"), S("x")>>)>>),
            L(<<S("fn"), N(1)>>)>>}

InitCall == InitMain(CallPrograms)

SpecCall == InitCall /\ [][NextMain]_vars

\* The record h is the call of a closure stored under the head symbol
IsStoredCall(h) ==
    /\ h.form.t = "List"
    /\ h.form.l # <<>>
    /\ h.form.l[1].t = "Symbol"
    /\ Bound(h.pre, h.form.l[1].s)
    /\ h.pre[h.form.l[1].s].t = "Closure"

\* The body of the closure called in h is a `global` form that binds the
\* closure's own name
RebindsItself(h) ==
    LET closure == h.pre[h.form.l[1].s].c
    IN  /\ closure.code # <<>>
        /\ closure.code[1] = S("global")
        /\ global_symbol(bind_upvalues(closure, Tail(h.form.l)), Tail(closure.code))
               = [some |-> TRUE, s |-> h.form.l[1].s]

\* The frame of a call: the stored closure, the root context and the list
\* evaluated are as they were
CallFrame(i) ==
    LET h == history[i]
    IN  IsStoredCall(h)
        => /\ RebindsItself(h) \/ h.post[h.form.l[1].s] = h.pre[h.form.l[1].s]
           /\ root_context = compile_thin(<<>>)
           /\ program[i] = h.form

\* C4 as stated: a call of a stored closure leaves the stored closure (its
\* slots and code), the caller's context and the list as they were, unless
\* the body rebinds the closure's name; hence the same call evaluated twice
\* in a row yields the same result both times.
C4_SameCallSameResult ==
    /\ \A i \in 1..Len(history) : CallFrame(i)
    /\ \A i \in 1..(Len(history) - 1) :
           (/\ IsStoredCall(history[i])
            /\ ~RebindsItself(history[i])
            /\ history[i + 1].form = history[i].form)
           => history[i + 1].res = history[i].res

\* C4 as amended: the frame as stated; the same call evaluated twice in a
\* row yields the same result both times when the first evaluation has left
\* the symbol table as it was (its body bound no global).
C4_NoLeak ==
    /\ \A i \in 1..Len(history) : CallFrame(i)
    /\ \A i \in 1..(Len(history) - 1) :
           (/\ IsStoredCall(history[i])
            /\ history[i].post = history[i].pre
            /\ history[i + 1].form = history[i].form)
           => history[i + 1].res = history[i].res

\* (g 1 2) then (g 1): the second call has found the placeholder of b, not
\* the 2 of the first call, and g is stored as it was compiled
C4_Witness ==
    /\ Done
    /\ program = <<DefG, L(<<S("g"), N(1), N(2)>>), L(<<S("g"), N(1)>>)>>
    /\ history[2].res = Ok(N(3))
    /\ history[3].res = Ok(N(1))
    /\ symbol_map["g"] = history[1].post["g"]
    /\ symbol_map["g"].c.upvalues = SomeUpvalues(<<S("a"), S("b")>>)

(***************************************************************************)
(* `global`                                                                *)
(***************************************************************************)
\* (global set (lambda (k v) (global k v))): global reached with UpvalueRefs
DefSet ==
    L(<<S("global"), S("set"),
        L(<<S("lambda"), L(<<S("k"), S("v")>>), L(<<S("global"), S("k"), S("v")>>)>>)>>)

GlobalFirsts == {S("x"), S("pi"), S("b"), N(5), String("s"), L(<<S("x")>>)}

GlobalValues ==
    {N(5), S("true"), S("zz"), String("s"), L(<<S("+"), N(1), N(2)>>),
     L(<<S("quote"), S("q")>>), BindB, L(<<S("nofn")>>)}

GlobalPrograms ==
    {<<L(<<S("global"), f, v>>)>> : f \in GlobalFirsts, v \in GlobalValues}
    \cup {<<L(<<S("global"), f>>)>> : f \in GlobalFirsts}
    \cup {<<L(<<S("global")>>)>>}
    \cup {<<DefSet, L(<<S("set"), f, v>>)>> : f \in GlobalFirsts, v \in GlobalValues}
    \cup {<<DefSet, L(<<S("set"), f>>)>> : f \in GlobalFirsts}

InitGlobal == InitMain(GlobalPrograms)

SpecGlobal == InitGlobal /\ [][NextMain]_vars

\* The value of each value expression on a fresh VM
ValueOf(v) ==
    CASE v = S("true") -> Bool(TRUE)
      [] v = L(<<S("+"), N(1), N(2)>>) -> N(3)
      [] v = L(<<S("quote"), S("q")>>) -> L(<<S("q")>>)
      [] v = BindB -> Nil
      [] OTHER -> v

\* The table `table` with `name` bound to `value` and nothing else changed
With(table, name, value) ==
    [n \in DOMAIN table \cup {name} |-> IF n = name THEN value ELSE table[n]]

\* The table the evaluation of each value expression leaves of the table
\* of a fresh VM: (global b 2) binds b, the others bind nothing
TableAfter(v) ==
    IF v = BindB THEN With(NewSymbolMap, "b", N(2)) ELSE NewSymbolMap

\* (global f v) with a Symbol first returns Nil and leaves the table
\* Before(v) with the name bound to the value of v, so that the name
\* resolves to it; with anything else first it returns NotASymbol and the
\* table is unchanged
GlobalBinds(Before(_)) ==
    \A f \in GlobalFirsts, v \in GlobalValues \ {L(<<S("nofn")>>)} :
        (Done /\ program = <<L(<<S("global"), f, v>>)>>)
        => IF f.t = "Symbol"
           THEN /\ Last.res = Ok(Nil)
                /\ symbol_map = With(Before(v), f.s, ValueOf(v))
                /\ resolve_or_symbol(symbol_map, f.s) = ValueOf(v)
           ELSE Last.res = Err("NotASymbol") /\ symbol_map = Last.pre

\* With no second parameter global returns InvalidUsage when the first is a
\* Symbol and NotASymbol when it is not or is absent too, and the table is
\* unchanged
GlobalRefuses ==
    /\ \A f \in GlobalFirsts :
           (Done /\ program = <<L(<<S("global"), f>>)>>)
           => /\ Last.res = Err(IF f.t = "Symbol" THEN "InvalidUsage"
                                ELSE "NotASymbol")
              /\ symbol_map = Last.pre
    /\ (Done /\ program = <<L(<<S("global")>>)>>)
           => (Last.res = Err("NotASymbol") /\ symbol_map = Last.pre)

\* global reached through UpvalueRefs: the slots hold the raw parameters of
\* (set f v), which are not evaluated again, and the slot of v holds its
\* placeholder Symbol when v is absent
GlobalByUpvalues ==
    /\ \A f \in GlobalFirsts, v \in GlobalValues :
           (Done /\ program = <<DefSet, L(<<S("set"), f, v>>)>>)
           => IF f.t = "Symbol"
              THEN /\ Last.res = Ok(Nil)
                   /\ symbol_map = With(Last.pre, f.s, v)
              ELSE Last.res = Err("NotASymbol") /\ symbol_map = Last.pre
    /\ \A f \in GlobalFirsts :
           (Done /\ program = <<DefSet, L(<<S("set"), f>>)>>)
           => IF f.t = "Symbol"
              THEN /\ Last.res = Ok(Nil)
                   /\ symbol_map = With(Last.pre, f.s, S("v"))
              ELSE Last.res = Err("NotASymbol") /\ symbol_map = Last.pre

\* C6 as stated: with a Symbol (or an UpvalueRef whose slot holds a Symbol)
\* first and a second parameter that evaluates to v, global returns Nil and
\* the table then maps the name to v with every other binding unchanged, so
\* that the name resolves to v; with anything else first it returns
\* NotASymbol, with no second parameter InvalidUsage, and the table is
\* unchanged in both cases.  (global x (global b 2)) binds b as well as x.
C6_OtherBindingsUnchanged ==
    /\ GlobalBinds(LAMBDA v : Last.pre)
    /\ GlobalRefuses
    /\ GlobalByUpvalues

\* C6 as amended: the table then is the table the evaluation of the second
\* parameter has left, with the name mapped to v: every other binding is
\* as that evaluation left it, and unchanged when it binds no global.
C6_Global ==
    /\ GlobalBinds(TableAfter)
    /\ GlobalRefuses
    /\ GlobalByUpvalues

\* (global x (global b 2)) has bound x to Nil, the value of its second
\* parameter, and b, which that parameter binds, to Number(2)
C6_Witness ==
    /\ Done
    /\ program = <<L(<<S("global"), S("x"), BindB>>)>>
    /\ Last.res = Ok(Nil)
    /\ DOMAIN Last.pre = DOMAIN NewSymbolMap
    /\ symbol_map = With(With(Last.pre, "b", N(2)), "x", Nil)

(***************************************************************************)
(* `quote` forms, in every place                                           *)
(***************************************************************************)
QuoteParams ==
    {<<>>, <<S("q")>>, <<S("true")>>, <<N(1), String("s")>>, <<BindA>>,
     <<S("true"), L(<<S("x")>>)>>, <<L(<<S("+"), N(1), N(2)>>)>>,
     <<S("pi"), S("false")>>, <<S("quote"), N(2), S("q")>>}

Quote(q) == L(<<S("quote")>> \o q)

QuotePrograms ==
    UNION {{AtTop(Quote(q)), AsBranch(Quote(q)), AsGlobalValue(Quote(q)),
            AsClosureBody(Quote(q)), AsArgument("+", Quote(q)),
            AsArgument("=", Quote(q))} : q \in QuoteParams}

InitQuote == InitMain(QuotePrograms)

SpecQuote == InitQuote /\ [][NextMain]_vars

\* C10: wherever (quote p1 ... pn) is evaluated (top level, branch of `if`,
\* value of `global`, argument of + or =), its result is the List of the
\* atoms p1..pn as written: bound symbols stay Symbols and nested lists are
\* not evaluated.
C10_QuoteVerbatim ==
    \A q \in QuoteParams :
        /\ (Done /\ program \in {AtTop(Quote(q)), AsBranch(Quote(q))})
               => Last.res = Ok(L(q))
        /\ (Done /\ program = AsGlobalValue(Quote(q)))
               => symbol_map["r"] = L(q)
        /\ (Done /\ program \in {AsArgument("+", Quote(q)),
                                 AsArgument("=", Quote(q))})
               => ~Bound(symbol_map, "a")

\* The part of C10 the code keeps: verbatim at the top level and as the
\* body of a closure, where evaluate hands quote the raw parameters
C10_VerbatimAtTop ==
    \A q \in QuoteParams :
        (Done /\ program \in {AtTop(Quote(q)), AsClosureBody(Quote(q))})
        => Last.res = Ok(L(q))

(***************************************************************************)
(* The parser, on every short text over a small alphabet and on the texts  *)
(* the specification names                                                 *)
(***************************************************************************)
\* a 1 . " ( ) and the space; U+0007, a character of no class (not
\* alphabetic, numeric, punctuation or white space); U+00E9, an alphabetic
\* character of two bytes
TextAlphabet == {97, 49, 46, 34, 40, 41, 32, 7, 233}

MaxTextLen == 4

\* (+ 1 2)    "abc    "abc"    (a b    .5    abc 12    (a (b (c)) d)
NamedTexts ==
    {<<40, 43, 32, 49, 32, 50, 41>>,
     <<34, 97, 98, 99>>,
     <<34, 97, 98, 99, 34>>,
     <<40, 97, 32, 98>>,
     <<46, 53>>,
     <<97, 98, 99, 32, 49, 50>>,
     <<40, 97, 32, 40, 98, 32, 40, 99, 41, 41, 32, 100, 41>>}

Texts == SeqsUpTo(TextAlphabet, MaxTextLen) \cup NamedTexts

InitParse ==
    /\ input \in Texts
    /\ pos = 0
    /\ state = StNone
    /\ atoms = <<>>
    /\ parsed = Pending
    /\ VmIdle

SpecParse == InitParse /\ [][NextParse]_vars

\* The scanner, run turn by turn, returns what parse returns
ParseAgrees == parsed # Pending => parsed = parse(input)

\* The state C8 gives the None state on character c at position p
ClaimedNoneStep(c, p) ==
    IF is_numeric(c) \/ c = 46 THEN Continue(StNumber(p), <<>>)
    ELSE IF c = 34 THEN Continue(StString(p), <<>>)
    ELSE IF c = 40 THEN Continue(StList(p, 0, FALSE), <<>>)
    ELSE IF is_alphabetic(c) \/ (is_ascii_punctuation(c) /\ c # 41)
    THEN Continue(StSymbol(p), <<>>)
    ELSE IF is_whitespace(c) THEN Continue(StNone, <<>>)
    ELSE Fail(InvalidCharacter(p))

\* C8: in the None state an alphabetic or non-parenthesis punctuation
\* character starts a Symbol, a digit or `.` a Number, `(` a List at depth 0,
\* `"` a String that the next `"` closes into a String atom of the text
\* between, white space stays in None, and any other character returns
\* InvalidCharacter at its position; so .5 parses to a Number and "abc" to
\* String(abc).  (The None state is the one the first character meets.)
C8_NoneState ==
    /\ (input # <<>> /\ pos = 1)
           => (/\ ClaimedNoneStep(input[1], 0).ok
               /\ state = ClaimedNoneStep(input[1], 0).state)
    /\ (input # <<>> /\ pos = 0 /\ parsed # Pending)
           => parsed = ClaimedNoneStep(input[1], 0)
    /\ (input = <<46, 53>> /\ parsed # Pending)
           => parsed = [ok |-> TRUE, atoms |-> <<F32(FALSE, 1, 0 - 1)>>]
    /\ (input = <<34, 97, 98, 99, 34>> /\ parsed # Pending)
           => parsed = [ok |-> TRUE, atoms |-> <<String("abc")>>]

\* The part of C8 the code keeps: every character but `.` and `"` is taken
\* as C8 says
C8_OtherCharacters ==
    (input # <<>> /\ input[1] \notin {46, 34})
    => /\ pos = 1 => (/\ ClaimedNoneStep(input[1], 0).ok
                      /\ state = ClaimedNoneStep(input[1], 0).state)
       /\ (pos = 0 /\ parsed # Pending) => parsed = ClaimedNoneStep(input[1], 0)

\* The text has no character of `set` after its first one
NoLater(set) == \A i \in 2..Len(input) : input[i] \notin set

\* C9: at the end of the input a trailing Symbol or Number token is flushed
\* as an atom, a String opened by `"` and never closed returns
\* IncompleteString, and a List opened by `(` and never closed returns
\* IncompleteList.
C9_EndOfInput ==
    (parsed # Pending /\ input # <<>>)
    => /\ (\A i \in 1..Len(input) : is_alphabetic(input[i]))
              => parsed = [ok |-> TRUE, atoms |-> <<Symbol(Join(input))>>]
       /\ (\A i \in 1..Len(input) : is_numeric(input[i]))
              => parsed = [ok |-> TRUE, atoms |-> <<from_str(input).val>>]
       /\ (input[1] = 34 /\ NoLater({34}))
              => parsed = Fail(IncompleteString)
       /\ (input[1] = 40 /\ NoLater({41}))
              => parsed = Fail(IncompleteList)

\* The part of C9 the code keeps: the flush of the trailing token, and
\* IncompleteList
C9_FlushAndIncompleteList ==
    (parsed # Pending /\ input # <<>>)
    => /\ (\A i \in 1..Len(input) : is_alphabetic(input[i]))
              => parsed = [ok |-> TRUE, atoms |-> <<Symbol(Join(input))>>]
       /\ (\A i \in 1..Len(input) : is_numeric(input[i]))
              => parsed = [ok |-> TRUE, atoms |-> <<from_str(input).val>>]
       /\ (input[1] = 40 /\ NoLater({41}))
              => parsed = Fail(IncompleteList)

\* No text makes parse return IncompleteString
C9_NeverIncompleteString == parsed # Fail(IncompleteString)

\* The slices are taken at byte offsets that count characters: after a
\* character of more than one byte a token is cut short or the indexing
\* panics ("\u{e9}" stands for the letter e with an acute accent, U+00E9)
C9_SlicesByBytes ==
    /\ (input = <<233, 97, 32, 97>> /\ parsed # Pending)
           => parsed = [ok |-> TRUE, atoms |-> <<Symbol("\\u{e9}"), Symbol(" a")>>]
    /\ (input = <<233, 233, 32, 97>> /\ parsed # Pending) => parsed = Panicked
    /\ (input = <<233, 32, 97>> /\ parsed # Pending) => parsed = Panicked

(***************************************************************************)
(* compile, reached through (lambda (names) (code)) at the top level: the  *)
(* root context has no slots and the code holds no UpvalueRef, so compile  *)
(* receives the names and the code as they are written                     *)
(***************************************************************************)
\* The longest list of declared names, and the longest code
MaxNames == 2

MaxCodeLen == 2

CompileNames == SeqsUpTo({"a", "b"}, MaxNames)

CompileAtoms ==
    {S("a"), S("b"), S("c"), N(1), L(<<S("a"), L(<<S("b"), S("c")>>)>>)}

CompileCodes == SeqsUpTo(CompileAtoms, MaxCodeLen)

\* (lambda (names) (code))
Lambda(names, code) ==
    L(<<S("lambda"), L([i \in 1..Len(names) |-> S(names[i])]), L(code)>>)

CompilePrograms ==
    {<<Lambda(names, code)>> : names \in CompileNames, code \in CompileCodes}

InitCompile == InitMain(CompilePrograms)

SpecCompile == InitCompile /\ [][NextMain]_vars

\* The 0-based first position of name in names
FirstPosition(names, name) ==
    (CHOOSE i \in 1..Len(names) :
        names[i] = name /\ \A j \in 1..(i - 1) : names[j] # name) - 1

\* The code the claim describes: each Symbol whose text is a declared name,
\* at any depth, made the UpvalueRef of the name's first position
RECURSIVE Upvalueized(_, _)
Upvalueized(code, names) ==
    [k \in 1..Len(code) |->
        CASE code[k].t = "Symbol" /\ \E i \in 1..Len(names) : names[i] = code[k].s ->
                 Upvalue(FirstPosition(names, code[k].s), code[k].s)
          [] code[k].t = "List" -> List(Upvalueized(code[k].l, names))
          [] OTHER -> code[k]]

\* The indices of the UpvalueRefs of a code, at any depth
RECURSIVE UpvalueIndices(_)
UpvalueIndices(code) ==
    UNION {CASE code[k].t = "Upvalue" -> {code[k].i}
             [] code[k].t = "List" -> UpvalueIndices(code[k].l)
             [] OTHER -> {} : k \in 1..Len(code)}

\* C11: compile(code, names) with no name returns a thin closure whose code
\* is `code`, no UpvalueRef introduced; with names it returns a closure whose
\* slots are the placeholders Symbol(name), one per declared name in order,
\* and whose code is `code` with every Symbol that is a declared name, at any
\* depth, made UpvalueRef(first position of the name, name) and every other
\* atom unchanged; so every UpvalueRef has an index inside the slots.
C11_Compile ==
    \A names \in CompileNames, code \in CompileCodes :
        (Done /\ program = <<Lambda(names, code)>>)
        => /\ Last.res.ok
           /\ Last.res.val.t = "Closure"
           /\ LET closure == Last.res.val.c
              IN  IF names = <<>>
                  THEN /\ closure.upvalues = NoUpvalues
                       /\ closure.code = code
                       /\ UpvalueIndices(closure.code) = {}
                  ELSE /\ closure.upvalues =
                              SomeUpvalues([i \in 1..Len(names) |-> S(names[i])])
                       /\ closure.code = Upvalueized(code, names)
                       /\ \A i \in UpvalueIndices(closure.code) :
                              i \in 0..(Len(names) - 1)

\* (lambda (b a) (a (a (b c)))) has been compiled: a nested b became
\* UpvalueRef(0, b), a became UpvalueRef(1, a) and c stayed a Symbol
C11_Witness ==
    /\ Done
    /\ program = <<Lambda(<<"b", "a">>, <<S("a"), L(<<S("a"), L(<<S("b"), S("c")>>)>>)>>)>>
    /\ Last.res = Ok(ClosureAtom(
           [upvalues |-> SomeUpvalues(<<S("b"), S("a")>>),
            code |-> <<Upvalue(1, "a"),
                       L(<<Upvalue(1, "a"), L(<<Upvalue(0, "b"), S("c")>>)>>)>>]))

(***************************************************************************)
(* The native function * called on Numbers                                 *)
(***************************************************************************)
\* The largest number of parameters of *
MaxFactors == 3

Factors == SeqsUpTo(0..MaxOperand, MaxFactors) \ {<<>>}

Product(q) == L(<<S("*")>> \o [i \in 1..Len(q) |-> N(q[i])])

ProductPrograms == {<<Product(q)>> : q \in Factors}

InitProduct == InitMain(ProductPrograms)

SpecProduct == InitProduct /\ [][NextMain]_vars

\* n1 * ... * nk
RECURSIVE ProductOf(_)
ProductOf(q) == IF q = <<>> THEN 1 ELSE q[1] * ProductOf(Tail(q))

\* C12: the call of * on k >= 1 Numbers n1 ... nk returns
\* Number(n1 * ... * nk); on 2 and 3 it yields Number(6).
C12_Product ==
    \A q \in Factors :
        (Done /\ program = <<Product(q)>>) => Last.res = Ok(N(ProductOf(q)))

\* What the fold seeded with 0 returns: Number(0), whatever the parameters
C12_ProductIsZero ==
    \A q \in Factors :
        (Done /\ program = <<Product(q)>>) => Last.res = Ok(N(0))

(***************************************************************************)
(* The binding of parameters to slots, seen from inside the body: the body *)
(* (resolve a b ..) returns the list of the slots of its context           *)
(***************************************************************************)
\* The most slots of the closure called, and the most parameters of a call
MaxSlots == 2

MaxParams == 3

SlotNames == <<"a", "b", "c", "d">>

\* (global g (lambda (a b ..) (resolve a b ..))), with s slots
DefProbe(s) ==
    LET names == [i \in 1..s |-> S(SlotNames[i])]
    IN  L(<<S("global"), S("g"),
            L(<<S("lambda"), L(names), L(<<S("resolve")>> \o names)>>)>>)

\* Parameters: a Number, a bound Symbol, an unbound Symbol, a List that
\* would bind z were it evaluated
RawParams == {N(1), S("pi"), S("u"), L(<<S("global"), S("z"), N(1)>>)}

ProbeCalls == SeqsUpTo(RawParams, MaxParams)

\* (global h (lambda (x y) (g y))): a closure whose body calls g
DefH ==
    L(<<S("global"), S("h"),
        L(<<S("lambda"), L(<<S("x"), S("y")>>), L(<<S("g"), S("y")>>)>>)>>)

BindingPrograms ==
    {<<DefProbe(s), L(<<S("g")>> \o q)>> : s \in 1..MaxSlots, q \in ProbeCalls}
    \cup {<<DefProbe(2), DefH, L(<<S("h"), N(8), N(9)>>)>>}

InitBinding == InitMain(BindingPrograms)

SpecBinding == InitBinding /\ [][NextMain]_vars

\* C13: when the resolved head of an evaluated list is a Closure of s slots
\* and the list has p parameters, the body is evaluated with, as context, the
\* closure whose slot i holds the raw, unevaluated i-th parameter for every
\* i < min(s, p) and whose slots i >= p are as they were in the resolved
\* closure (the placeholder Symbol of the declared name); parameters at
\* index >= s are ignored; the context is not the caller's closure.
C13_Binding ==
    /\ \A s \in 1..MaxSlots, q \in ProbeCalls :
           (Done /\ program = <<DefProbe(s), L(<<S("g")>> \o q)>>)
           => /\ Last.res = Ok(L([i \in 1..s |->
                                     IF i <= Len(q) THEN q[i]
                                     ELSE S(SlotNames[i])]))
              /\ Last.post = Last.pre
    /\ (Done /\ program = <<DefProbe(2), DefH, L(<<S("h"), N(8), N(9)>>)>>)
       => Last.res = Ok(L(<<Upvalue(1, "y"), S("b")>>))

\* (g pi (global z 1) u) has run on a g of two slots: the slots held the
\* Symbol pi and the list, unevaluated, and the third parameter was dropped
C13_Witness ==
    /\ Done
    /\ program = <<DefProbe(2),
                   L(<<S("g"), S("pi"), L(<<S("global"), S("z"), N(1)>>), S("u")>>)>>
    /\ Last.res = Ok(L(<<S("pi"), L(<<S("global"), S("z"), N(1)>>)>>))
    /\ ~Bound(symbol_map, "z")

(***************************************************************************)
(* A closure whose body is a call of another closure, passing on one of    *)
(* its own parameters                                                      *)
(***************************************************************************)
\* What the callee does with its parameter x
IdBodies == {"+", "neg", "resolve"}

\* (global id (lambda (x) (op x)))
DefId(op) ==
    L(<<S("global"), S("id"),
        L(<<S("lambda"), L(<<S("x")>>), L(<<S(op), S("x")>>)>>)>>)

\* (global call (lambda (n) (id n)))
DefCall ==
    L(<<S("global"), S("call"),
        L(<<S("lambda"), L(<<S("n")>>), L(<<S("id"), S("n")>>)>>)>>)

\* (global call (lambda (m n) (id n)))
DefCallSecond ==
    L(<<S("global"), S("call"),
        L(<<S("lambda"), L(<<S("m"), S("n")>>), L(<<S("id"), S("n")>>)>>)>>)

\* (global call (lambda (n) (if true (id n)))): the call of id is not the
\* body itself but a parameter of `if`
DefCallUnderIf ==
    L(<<S("global"), S("call"),
        L(<<S("lambda"), L(<<S("n")>>),
            L(<<S("if"), S("true"), L(<<S("id"), S("n")>>)>>)>>)>>)

\* The callers whose body is the call of id, with the call that passes v
DirectCallers(v) ==
    {<<DefCall, L(<<S("call"), N(v)>>)>>,
     <<DefCallSecond, L(<<S("call"), N(0), N(v)>>)>>}

ForwardPrograms ==
    {<<DefId(op)>> \o c :
        op \in IdBodies,
        c \in UNION {DirectCallers(v) \cup {<<DefCallUnderIf, L(<<S("call"), N(v)>>)>>} :
                        v \in 0..MaxOperand}}

InitForward == InitMain(ForwardPrograms)

SpecForward == InitForward /\ [][NextMain]_vars

\* What id returns when x is the Number v (the negation of 0.0 is -0.0)
IdOf(op, v) ==
    CASE op = "+" -> N(v)
      [] op = "neg" -> NumNeg(N(v))
      [] op = "resolve" -> L(<<N(v)>>)

\* C14: an upvalue slot read while a closure body is evaluated never yields
\* an UpvalueRef of another closure: when the body of a closure is a call of
\* another closure that passes one of the caller's parameters, the callee
\* sees the caller's argument value; with id = (lambda (x) (+ x)) and
\* call = (lambda (n) (id n)), (call 7) yields Number(7).
C14_CalleeSeesValue ==
    \A op \in IdBodies, v \in 0..MaxOperand :
        \A c \in DirectCallers(v) :
            (Done /\ program = <<DefId(op)>> \o c) => Last.res = Ok(IdOf(op, v))

\* What the code does: the callee's slot holds the caller's UpvalueRef,
\* which + counts as 0 and neg and resolve hand back; under `if` the
\* parameter is resolved in the caller first and the callee sees the value
C14_CalleeSeesUpvalueRef ==
    /\ \A v \in 0..MaxOperand :
           /\ (Done /\ program = <<DefId("+"), DefCall, L(<<S("call"), N(v)>>)>>)
              => Last.res = Ok(N(0))
           /\ (Done /\ program = <<DefId("neg"), DefCall, L(<<S("call"), N(v)>>)>>)
              => Last.res = Ok(Upvalue(0, "n"))
           /\ (Done /\ program =
                   <<DefId("resolve"), DefCallSecond, L(<<S("call"), N(0), N(v)>>)>>)
              => Last.res = Ok(L(<<Upvalue(1, "n")>>))
    /\ \A op \in IdBodies, v \in 0..MaxOperand :
           (Done /\ program = <<DefId(op), DefCallUnderIf, L(<<S("call"), N(v)>>)>>)
           => Last.res = Ok(IdOf(op, v))

(***************************************************************************)
(* The sample program, run on (fib n fib) and on (- a b)                   *)
(***************************************************************************)
SamplePrograms ==
    {<<DefFn, DefMinus, DefFib, CallFib(n)>> : n \in 0..MaxFib}
    \cup {<<DefFn, DefMinus, L(<<S("-"), N(a), N(b)>>), S("pi")>> :
            a \in 0..MaxOperand, b \in 0..MaxOperand}

InitSample == InitMain(SamplePrograms)

SpecSample == InitSample /\ [][NextMain]_vars

\* F(n): F(0) = 0, F(1) = 1, F(n) = F(n - 1) + F(n - 2)
RECURSIVE Fibonacci(_)
Fibonacci(n) == IF n < 2 THEN n ELSE Fibonacci(n - 1) + Fibonacci(n - 2)

\* C5: with fn, - and fib defined as in the sample program, in that order,
\* on a fresh VM, (fib n fib) returns Number(F(n)) for every n of 0..MaxFib
\* (and (- a b) returns Number(a - b)).
C5_Fib ==
    /\ \A n \in 0..MaxFib :
           (Done /\ program = <<DefFn, DefMinus, DefFib, CallFib(n)>>)
           => Last.res = Ok(N(Fibonacci(n)))
    /\ \A a \in 0..MaxOperand, b \in 0..MaxOperand :
           (pc >= 3 /\ program[3] = L(<<S("-"), N(a), N(b)>>))
           => history[3].res = Ok(N(a - b))

\* (fib MaxFib fib) has returned F(MaxFib), which took recursive calls
C5_Witness ==
    /\ Done
    /\ program = <<DefFn, DefMinus, DefFib, CallFib(MaxFib)>>
    /\ Last.res = Ok(N(Fibonacci(MaxFib)))
    /\ Fibonacci(MaxFib) > 1

Init == InitSample

Next == NextMain

Spec == Init /\ [][Next]_vars
====
